---- MODULE Spec2Model ----
(***************************************************************************)
(* Queue-number allocation of the NYSC queue service: the /generate and   *)
(* /verify handlers of src/src/routes/queue.js running in several          *)
(* concurrent requests against one PostgreSQL store (READ COMMITTED), with *)
(* the validation, geofencing and fingerprint helpers they call.           *)
(*                                                                         *)
(* Conventions of the model                                                *)
(*  - A JavaScript value is a tagged record: Undefined, Num(n), Str(s).    *)
(*  - A state code is a sequence of one-character strings, so that trim,   *)
(*    toUpperCase and the regular expression are computed, not assumed.    *)
(*  - Positions lie on the meridian of the LGA centre and latitudes are    *)
(*    counted in metres of arc, for which the haversine distance is the    *)
(*    absolute difference of the latitudes.                                *)
(*  - sha256 over a '|'-joined string is modelled as the tagged tuple of   *)
(*    the joined fields (no collisions).                                   *)
(*  - A statement of a transaction sees the rows committed when it runs    *)
(*    (READ COMMITTED); an INSERT that meets an uncommitted row with the   *)
(*    same unique key waits for the other transaction to end.              *)
(*  - Time is counted in hours of UTC; the server process runs in UTC and  *)
(*    the site is at UTC+1 (West Africa Time).                             *)
(***************************************************************************)
EXTENDS Integers, Sequences, FiniteSets, TLC

VARIABLES
  isDevMode,      \* process.env.DEV_MODE === 'true'
  clock,          \* the instant new Date() returns, in hours of UTC since day 1, 00:00
  queue_entries,  \* committed rows of table queue_entries
  corps_members,  \* committed rows of table corps_members (state codes)
  idSeq,          \* number of row ids handed out by gen_random_uuid()
  pc,             \* per request handler: the statement it awaits next
  local,          \* per request handler: the handler's local variables
  txEntry,        \* per request handler: queue_entries row inserted, not yet committed
  txMember,       \* per request handler: corps_members row inserted, not yet committed
  sent,           \* the response the last step sent and the handler that sent it, if any
  verifyLocal,    \* per request handler: the local variables of POST /verify
  txUpdate,       \* per request handler: id of the row it updated, not yet committed
  gate,           \* geofencing.js on its own: the arguments of a call and its result
  hashed,         \* fingerprint.js on its own: two device infos and their fingerprints
  limiter,        \* queueGenerationLimiter: the hits of every key in the current window
  app,            \* public/app.js: the page's location state and its submit button
  store           \* the pool and the server on their own: connections, transactions, answers

vars == <<store, isDevMode, clock, queue_entries, corps_members, idSeq,
          pc, local, txEntry, txMember, sent, verifyLocal, txUpdate, gate,
          hashed, limiter, app>>

----------------------------------------------------------------------------
(* Bounds *)

NumClients == 2
MaxDay == 2
MaxHits == 6      \* requests counted per rate-limit key and window

Clients == 1..NumClients
Days == 1..MaxDay

----------------------------------------------------------------------------
(* JavaScript values *)

Undefined == [t |-> "undefined"]
NaN == [t |-> "NaN"]
Num(n) == [t |-> "number", v |-> n]
Str(s) == [t |-> "string", v |-> s]

Abs(x) == IF x < 0 THEN -x ELSE x
Min(a, b) == IF a <= b THEN a ELSE b
Max(a, b) == IF a >= b THEN a ELSE b

\* parseFloat: a number is itself; the strings of the model are not numeric.
parseFloat(x) == IF x.t = "number" THEN x ELSE NaN

----------------------------------------------------------------------------
(* Dates: new Date().toISOString().split('T')[0] and the site's calendar *)

\* West Africa Time is UTC+1.
SITE_UTC_OFFSET == 1

\* The UTC calendar day of an instant, which toISOString() prints.
toISODate(instant) == (instant \div 24) + 1

\* The calendar day of an instant at the site (Africa/Lagos).
siteDate(instant) == ((instant + SITE_UTC_OFFSET) \div 24) + 1

\* The instants the model observes: 12:00 and 23:00 UTC of every day, that is
\* 13:00 of the same day and 00:00 of the next day at the site.
NextInstant(instant) == IF instant % 24 = 12 THEN instant + 11 ELSE instant + 13

----------------------------------------------------------------------------
(* src/unnamed/part_004 (utils/validation.js) *)

UpperLetters == {"A", "B", "C", "D", "E", "F", "G", "H", "I", "J", "K", "L", "M",
                 "N", "O", "P", "Q", "R", "S", "T", "U", "V", "W", "X", "Y", "Z"}
Digits == {"0", "1", "2", "3", "4", "5", "6", "7", "8", "9"}
Whitespace == {" "}

toUpperCaseChar(c) ==
  CASE c = "a" -> "A" [] c = "b" -> "B" [] c = "c" -> "C" [] c = "d" -> "D"
    [] c = "n" -> "N" [] c = "y" -> "Y"
    [] OTHER -> c

\* A toUpperCase that leaves the letters as they are.
toUpperCaseNone(s) == s

toUpperCase(s) == [i \in 1..Len(s) |-> toUpperCaseChar(s[i])]

RECURSIVE trimStart(_)
trimStart(s) ==
  IF s # <<>> /\ Head(s) \in Whitespace THEN trimStart(Tail(s)) ELSE s

RECURSIVE trimEnd(_)
trimEnd(s) ==
  IF s # <<>> /\ s[Len(s)] \in Whitespace
  THEN trimEnd(SubSeq(s, 1, Len(s) - 1))
  ELSE s

trim(s) == trimEnd(trimStart(s))

\* /^[A-Z]{2}\/\d{2}[A-C]\/\d{1,5}$/
patternTest(s) ==
  /\ Len(s) >= 8
  /\ Len(s) <= 12
  /\ s[1] \in UpperLetters
  /\ s[2] \in UpperLetters
  /\ s[3] = "/"
  /\ s[4] \in Digits
  /\ s[5] \in Digits
  /\ s[6] \in {"A", "B", "C"}
  /\ s[7] = "/"
  /\ \A i \in 8..Len(s) : s[i] \in Digits

validateStateCode(stateCode) ==
  IF stateCode.t # "string" \/ stateCode.v = <<>>
  THEN [valid |-> FALSE, message |-> "State code is required", normalized |-> <<>>]
  ELSE LET s == toUpperCase(trim(stateCode.v)) IN
       IF ~patternTest(s)
       THEN [valid |-> FALSE,
             message |-> "Invalid state code format. Expected: NY/23A/1234",
             normalized |-> <<>>]
       ELSE [valid |-> TRUE, message |-> "Valid state code", normalized |-> s]

LAT_RANGE == 10007543   \* 90 degrees of latitude, in metres of arc
LON_RANGE == 180        \* degrees of longitude

\* A validation that takes every position for a missing one.
validateLocationMissing(latitude, longitude) ==
  [valid |-> FALSE, message |-> "GPS coordinates are required",
   latitude |-> 0, longitude |-> 0]

validateLocation(latitude, longitude) ==
  LET lat == parseFloat(latitude)
      lon == parseFloat(longitude)
      bad(m) == [valid |-> FALSE, message |-> m, latitude |-> 0, longitude |-> 0]
  IN  IF latitude = Undefined \/ longitude = Undefined
      THEN bad("GPS coordinates are required")
      ELSE IF lat = NaN \/ lon = NaN
      THEN bad("Invalid GPS coordinates")
      ELSE IF lat.v < -LAT_RANGE \/ lat.v > LAT_RANGE
      THEN bad("Latitude must be between -90 and 90")
      ELSE IF lon.v < -LON_RANGE \/ lon.v > LON_RANGE
      THEN bad("Longitude must be between -180 and 180")
      ELSE [valid |-> TRUE, message |-> "Valid coordinates",
            latitude |-> lat.v, longitude |-> lon.v]

----------------------------------------------------------------------------
(* src/src/utils/geofencing.js *)

\* Haversine distance in metres, for two points of one meridian (lon1 = lon2)
\* with latitudes in metres of arc.
calculateDistance(lat1, lon1, lat2, lon2) == Abs(lat2 - lat1)

MAX_ACCURACY_ADJUST == 150

\* The gate without the accuracy adjustment: the measured distance decides.
isWithinGeofenceNoAdjust(userLat, userLon, lgaLat, lgaLon, radiusMeters, gpsAccuracy) ==
  LET distance == calculateDistance(userLat, userLon, lgaLat, lgaLon)
  IN  [isWithin |-> distance <= radiusMeters,
       distance |-> distance,
       effectiveDistance |-> distance,
       accuracyAdjust |-> 0,
       allowed |-> radiusMeters]

\* The gate without the cap on the accuracy adjustment.
isWithinGeofenceUncapped(userLat, userLon, lgaLat, lgaLon, radiusMeters, gpsAccuracy) ==
  LET distance == calculateDistance(userLat, userLon, lgaLat, lgaLon)
      accuracyAdjust == Max(gpsAccuracy, 0)
      effectiveDistance == Max(0, distance - accuracyAdjust)
  IN  [isWithin |-> effectiveDistance <= radiusMeters,
       distance |-> distance,
       effectiveDistance |-> effectiveDistance,
       accuracyAdjust |-> accuracyAdjust,
       allowed |-> radiusMeters]

\* A gate that adds the accuracy to the distance.
isWithinGeofenceAddsAccuracy(userLat, userLon, lgaLat, lgaLon, radiusMeters, gpsAccuracy) ==
  LET distance == calculateDistance(userLat, userLon, lgaLat, lgaLon)
      accuracyAdjust == Min(Max(gpsAccuracy, 0), MAX_ACCURACY_ADJUST)
      effectiveDistance == Max(0, distance + accuracyAdjust)
  IN  [isWithin |-> effectiveDistance <= radiusMeters,
       distance |-> distance,
       effectiveDistance |-> effectiveDistance,
       accuracyAdjust |-> accuracyAdjust,
       allowed |-> radiusMeters]

isWithinGeofence(userLat, userLon, lgaLat, lgaLon, radiusMeters, gpsAccuracy) ==
  LET distance == calculateDistance(userLat, userLon, lgaLat, lgaLon)
      accuracyAdjust == Min(Max(gpsAccuracy, 0), MAX_ACCURACY_ADJUST)
      effectiveDistance == Max(0, distance - accuracyAdjust)
  IN  [isWithin |-> effectiveDistance <= radiusMeters,
       distance |-> distance,
       effectiveDistance |-> effectiveDistance,
       accuracyAdjust |-> accuracyAdjust,
       allowed |-> radiusMeters]

----------------------------------------------------------------------------
(* src/src/utils/fingerprint.js *)

\* x || '' of a numeric attribute, then its text in the joined string
OrEmpty(x) == IF x = 0 THEN "" ELSE ToString(x)

generateFingerprint(deviceInfo) ==
  <<"sha256", deviceInfo.userAgent, deviceInfo.platform,
    deviceInfo.screenResolution, deviceInfo.timezone, deviceInfo.language>>

\* A stable fingerprint that hashes the userAgent as well.
generateStableFingerprintWithAgent(deviceInfo) ==
  <<"sha256", deviceInfo.userAgent, deviceInfo.platform,
    deviceInfo.screenResolution, deviceInfo.timezone, deviceInfo.language,
    OrEmpty(deviceInfo.metadata.colorDepth),
    OrEmpty(deviceInfo.metadata.hardwareConcurrency),
    OrEmpty(deviceInfo.metadata.deviceMemory),
    OrEmpty(deviceInfo.metadata.maxTouchPoints),
    deviceInfo.metadata.canvas>>

generateStableFingerprint(deviceInfo) ==
  <<"sha256", deviceInfo.platform, deviceInfo.screenResolution,
    deviceInfo.timezone, deviceInfo.language,
    OrEmpty(deviceInfo.metadata.colorDepth),
    OrEmpty(deviceInfo.metadata.hardwareConcurrency),
    OrEmpty(deviceInfo.metadata.deviceMemory),
    OrEmpty(deviceInfo.metadata.maxTouchPoints),
    deviceInfo.metadata.canvas>>

validateDeviceInfo(deviceInfo) ==
  LET requiredFields == {"userAgent", "platform", "screenResolution", "timezone"}
      missing == {f \in requiredFields : deviceInfo[f] = ""}
  IN  [valid |-> missing = {}, missing |-> missing]

----------------------------------------------------------------------------
(* The store: src/src/database/migrate.js, src/src/database/seed.js *)

LGA_LATITUDE == 734090    \* 6.6018 degrees north, in metres of arc
LGA_LONGITUDE == 3        \* degrees east
LGA_RADIUS == 500

\* Table lgas after seeding: one row.
lgas == <<[id |-> 1, name |-> "Ikeja", latitude |-> LGA_LATITUDE,
           longitude |-> LGA_LONGITUDE, radius_meters |-> LGA_RADIUS]>>

NoRow == [id |-> 0]

\* A table created without UNIQUE(state_code, date, lga_id).
NoUniqueStateCode(row, rows) == FALSE

\* UNIQUE(state_code, date, lga_id)
ViolatesUniqueStateCode(row, rows) ==
  \E r \in rows : r.state_code = row.state_code /\ r.date = row.date

\* A table created without UNIQUE(queue_number, lga_id, date).
NoUniqueQueueNumber(row, rows) == FALSE

\* UNIQUE(queue_number, lga_id, date)
ViolatesUniqueQueueNumber(row, rows) ==
  \E r \in rows : r.queue_number = row.queue_number /\ r.date = row.date

ViolatesUnique(row, rows) ==
  ViolatesUniqueStateCode(row, rows) \/ ViolatesUniqueQueueNumber(row, rows)

SetMax(S) == CHOOSE m \in S : \A x \in S : x <= m

\* The MAX taken over the whole table, the date filter forgotten.
NextQueueNumberAnyDate(rows, date) ==
  LET numbers == {r.queue_number : r \in rows}
  IN  (IF numbers = {} THEN 0 ELSE SetMax(numbers)) + 1

\* SELECT COALESCE(MAX(queue_number), 0) + 1 ... WHERE lga_id = $1 AND date = $2
NextQueueNumber(rows, date) ==
  LET numbers == {r.queue_number : r \in {x \in rows : x.date = date}}
  IN  (IF numbers = {} THEN 0 ELSE SetMax(numbers)) + 1

----------------------------------------------------------------------------
(* Requests: req.body of POST /api/queue/generate *)

CODE_1 == <<"N", "Y", "/", "2", "3", "A", "/", "1">>
CODE_1_RAW == <<" ", "n", "y", "/", "2", "3", "a", "/", "1", " ">>   \* normalises to CODE_1
CODE_1_LOWER == <<"n", "y", "/", "2", "3", "A", "/", "1">>   \* normalises to CODE_1
CODE_2 == <<"N", "Y", "/", "2", "3", "B", "/", "2">>
CODE_BAD == <<"N", "Y", "/", "2", "3", "D", "/", "1">>

StateCodes == {Str(CODE_1_RAW), Str(CODE_2), Str(CODE_BAD)}

PhoneAMeta == [colorDepth |-> 24, hardwareConcurrency |-> 8, deviceMemory |-> 4,
               maxTouchPoints |-> 5, canvas |-> "canvasA"]
PhoneBMeta == [colorDepth |-> 24, hardwareConcurrency |-> 4, deviceMemory |-> 0,
               maxTouchPoints |-> 5, canvas |-> "canvasB"]

Device(ua, platform, screen, meta) ==
  [userAgent |-> ua, platform |-> platform, screenResolution |-> screen,
   timezone |-> "Africa/Lagos", language |-> "en-NG", metadata |-> meta]

ChromeOnA == Device("Chrome", "Linux armv8l", "360x800", PhoneAMeta)
FirefoxOnA == Device("Firefox", "Linux armv8l", "360x800", PhoneAMeta)
ChromeOnB == Device("Chrome", "Linux armv8l", "412x915", PhoneBMeta)
NoPlatform == Device("Chrome", "", "360x800", PhoneAMeta)

CompleteDevices == {ChromeOnA, FirefoxOnA, ChromeOnB}
DeviceInfos == CompleteDevices \cup {NoPlatform, Undefined}

Latitudes == {Undefined, Num(LGA_LATITUDE + 520)}
Longitudes == {Num(LGA_LONGITUDE)}
Accuracies == {Undefined, Num(30)}

Bodies ==
  [state_code : StateCodes, latitude : Latitudes, longitude : Longitudes,
   gps_accuracy : Accuracies, device_info : DeviceInfos]

\* The requests of two applicants with their own phones, standing at the LGA.
DayBodies ==
  [state_code : {Str(CODE_1_RAW), Str(CODE_2)},
   latitude : {Num(LGA_LATITUDE + 520)}, longitude : Longitudes,
   gps_accuracy : {Num(30)}, device_info : {ChromeOnA, ChromeOnB}]

----------------------------------------------------------------------------
(* Responses *)

\* queue_number, reference_id and state_code are those of the queue entry the
\* response reports (details.existing_* in the 403 of the device check), and
\* attempted is details.attempted_state_code; ticket_status is the status
\* column of that entry (the key status of the 200 and the 201).
Response(status, error, queue_number, reference_id, state_code, attempted, ticket_status) ==
  [status |-> status, error |-> error, queue_number |-> queue_number,
   reference_id |-> reference_id, state_code |-> state_code,
   attempted |-> attempted, ticket_status |-> ticket_status]

Failure(status, error) == Response(status, error, 0, 0, <<>>, <<>>, "")

NothingSent == [to |-> 0, body |-> Failure(0, "")]

NoLocal ==
  [state_code |-> Undefined, normalizedStateCode |-> <<>>, device_info |-> Undefined, userLat |-> 0,
   userLon |-> 0, today |-> 0, nextQueueNumber |-> 0]

NoVerifyLocal == [reference_id |-> 0, mark_used |-> FALSE, today |-> 0]

NoGate == [called |-> FALSE]

NoHashed == [called |-> FALSE]

NoLimiter == [hits |-> <<>>]

NoApp == [loaded |-> FALSE]

NoStore == [up |-> TRUE]

----------------------------------------------------------------------------
(* POST /api/queue/generate: src/src/routes/queue.js, lines 28-283 *)

\* res.status(..).json(..) followed by client.release(): the handler is idle again.
Send(p, r) ==
  /\ sent' = [to |-> p, body |-> r]
  /\ pc' = [pc EXCEPT ![p] = "idle"]
  /\ local' = [local EXCEPT ![p] = NoLocal]

\* Line 110: typeof gps_accuracy === 'number' && gps_accuracy > 0 ? gps_accuracy : 0
AccuracyMeters(gps_accuracy) ==
  IF gps_accuracy.t = "number" /\ gps_accuracy.v > 0 THEN gps_accuracy.v ELSE 0

\* A handler whose DEV_MODE also skips the check of the device attributes.
ReceiveInDevAnyDevice(p, body, devMode) ==
  /\ pc[p] = "idle"
  /\ UNCHANGED <<store, isDevMode, hashed, limiter, app, verifyLocal, txUpdate, gate, clock, queue_entries, corps_members, idSeq, txEntry, txMember>>
  /\ LET stateCodeValidation == validateStateCode(body.state_code)
         locationValidation == validateLocation(body.latitude, body.longitude)
     IN
     IF ~stateCodeValidation.valid
     THEN Send(p, Failure(400, stateCodeValidation.message))
     ELSE IF ~devMode /\ ~locationValidation.valid
     THEN Send(p, Failure(400, locationValidation.message))
     ELSE IF body.device_info = Undefined
     THEN Send(p, Failure(400, "Device information is required"))
     ELSE IF ~devMode /\ ~validateDeviceInfo(body.device_info).valid
     THEN Send(p, Failure(400, "Incomplete device information"))
     ELSE IF Len(lgas) = 0
     THEN Send(p, Failure(503, "No LGA configured. Please contact administrator"))
     ELSE
       LET lga == lgas[1]
           userLat == IF locationValidation.valid
                      THEN locationValidation.latitude ELSE lga.latitude
           userLon == IF locationValidation.valid
                      THEN locationValidation.longitude ELSE lga.longitude
           accuracyMeters == AccuracyMeters(body.gps_accuracy)
           geofenceCheck ==
             isWithinGeofence(userLat, userLon, lga.latitude, lga.longitude,
                              lga.radius_meters, accuracyMeters)
       IN
       IF ~devMode /\ ~geofenceCheck.isWithin
       THEN Send(p, Failure(403, "You are outside the allowed LGA area"))
       ELSE /\ pc' = [pc EXCEPT ![p] = "deviceCheck"]
            /\ local' = [local EXCEPT ![p] =
                 [state_code |-> body.state_code,
                  normalizedStateCode |-> stateCodeValidation.normalized,
                  device_info |-> body.device_info,
                  userLat |-> userLat, userLon |-> userLon,
                  today |-> toISODate(clock), nextQueueNumber |-> 0]]
            /\ sent' = NothingSent

\* Lines 28-140: the checks that read no mutable row (state code, coordinates,
\* device information), BEGIN, the LGA lookup, the geofence, and the reading of
\* today's date.
ReceiveIn(p, body, devMode) ==
  /\ pc[p] = "idle"
  /\ UNCHANGED <<store, isDevMode, hashed, limiter, app, verifyLocal, txUpdate, gate, clock, queue_entries, corps_members, idSeq, txEntry, txMember>>
  /\ LET stateCodeValidation == validateStateCode(body.state_code)
         locationValidation == validateLocation(body.latitude, body.longitude)
     IN
     IF ~stateCodeValidation.valid
     THEN Send(p, Failure(400, stateCodeValidation.message))
     ELSE IF ~devMode /\ ~locationValidation.valid
     THEN Send(p, Failure(400, locationValidation.message))
     ELSE IF body.device_info = Undefined
     THEN Send(p, Failure(400, "Device information is required"))
     ELSE IF ~validateDeviceInfo(body.device_info).valid
     THEN Send(p, Failure(400, "Incomplete device information"))
     ELSE IF Len(lgas) = 0
     THEN Send(p, Failure(503, "No LGA configured. Please contact administrator"))
     ELSE
       LET lga == lgas[1]
           userLat == IF locationValidation.valid
                      THEN locationValidation.latitude ELSE lga.latitude
           userLon == IF locationValidation.valid
                      THEN locationValidation.longitude ELSE lga.longitude
           accuracyMeters == AccuracyMeters(body.gps_accuracy)
           geofenceCheck ==
             isWithinGeofence(userLat, userLon, lga.latitude, lga.longitude,
                              lga.radius_meters, accuracyMeters)
       IN
       IF ~devMode /\ ~geofenceCheck.isWithin
       THEN Send(p, Failure(403, "You are outside the allowed LGA area"))
       ELSE /\ pc' = [pc EXCEPT ![p] = "deviceCheck"]
            /\ local' = [local EXCEPT ![p] =
                 [state_code |-> body.state_code,
                  normalizedStateCode |-> stateCodeValidation.normalized,
                  device_info |-> body.device_info,
                  userLat |-> userLat, userLon |-> userLon,
                  today |-> toISODate(clock), nextQueueNumber |-> 0]]
            /\ sent' = NothingSent

Receive(p, body) == ReceiveIn(p, body, isDevMode)

deviceFingerprint(p) == generateFingerprint(local[p].device_info)

\* A device lookup that sees only the ACTIVE entries.
DeviceCheckActiveOnly(p) ==
  /\ pc[p] = "deviceCheck"
  /\ UNCHANGED <<store, isDevMode, hashed, limiter, app, verifyLocal, txUpdate, gate, clock, queue_entries, corps_members, idSeq, txEntry, txMember>>
  /\ LET rows == {r \in queue_entries :
                    /\ r.device_fingerprint = deviceFingerprint(p)
                    /\ r.date = local[p].today
                    /\ r.status = "ACTIVE"}
     IN
     IF rows # {}
     THEN \E existing \in rows :
            IF existing.state_code = local[p].normalizedStateCode
            THEN Send(p, Response(200, "", existing.queue_number, existing.id,
                                  existing.state_code, <<>>, existing.status))
            ELSE Send(p, Response(403, "One queue per device limit exceeded",
                                  existing.queue_number, 0, existing.state_code,
                                  local[p].normalizedStateCode, ""))
     ELSE /\ pc' = [pc EXCEPT ![p] = "stateCodeCheck"]
          /\ UNCHANGED local
          /\ sent' = NothingSent

\* Lines 141-178: VALIDATION 5, one queue per device per day.
DeviceCheck(p) ==
  /\ pc[p] = "deviceCheck"
  /\ UNCHANGED <<store, isDevMode, hashed, limiter, app, verifyLocal, txUpdate, gate, clock, queue_entries, corps_members, idSeq, txEntry, txMember>>
  /\ LET rows == {r \in queue_entries :
                    /\ r.device_fingerprint = deviceFingerprint(p)
                    /\ r.date = local[p].today}
     IN
     IF rows # {}
     THEN \E existing \in rows :
            IF existing.state_code = local[p].normalizedStateCode
            THEN Send(p, Response(200, "", existing.queue_number, existing.id,
                                  existing.state_code, <<>>, existing.status))
            ELSE Send(p, Response(403, "One queue per device limit exceeded",
                                  existing.queue_number, 0, existing.state_code,
                                  local[p].normalizedStateCode, ""))
     ELSE /\ pc' = [pc EXCEPT ![p] = "stateCodeCheck"]
          /\ UNCHANGED local
          /\ sent' = NothingSent

\* VALIDATION 6 left out: the request goes on to the queue number.
StateCodeCheckSkipped(p) ==
  /\ pc[p] = "stateCodeCheck"
  /\ pc' = [pc EXCEPT ![p] = "nextNumber"]
  /\ sent' = NothingSent
  /\ UNCHANGED <<store, isDevMode, hashed, limiter, app, verifyLocal, txUpdate, gate, clock, queue_entries, corps_members, idSeq,
                 local, txEntry, txMember>>

\* Lines 180-200: VALIDATION 6, state code already used from another device.
StateCodeCheck(p) ==
  /\ pc[p] = "stateCodeCheck"
  /\ UNCHANGED <<store, isDevMode, hashed, limiter, app, verifyLocal, txUpdate, gate, clock, queue_entries, corps_members, idSeq, txEntry, txMember>>
  /\ LET rows == {r \in queue_entries :
                    /\ r.state_code = local[p].normalizedStateCode
                    /\ r.date = local[p].today}
         proceed == /\ pc' = [pc EXCEPT ![p] = "nextNumber"]
                    /\ UNCHANGED local
                    /\ sent' = NothingSent
     IN
     IF rows # {}
     THEN \E existing \in rows :
            IF existing.device_fingerprint # deviceFingerprint(p)
            THEN Send(p, Failure(401, "State code already used"))
            ELSE proceed
     ELSE proceed

\* Lines 202-210: the next queue number of this LGA today.
SelectNextNumber(p) ==
  /\ pc[p] = "nextNumber"
  /\ local' = [local EXCEPT ![p].nextQueueNumber =
                 NextQueueNumber(queue_entries, local[p].today)]
  /\ pc' = [pc EXCEPT ![p] = "insertMember"]
  /\ sent' = NothingSent
  /\ UNCHANGED <<store, isDevMode, hashed, limiter, app, verifyLocal, txUpdate, gate, clock, queue_entries, corps_members, idSeq,
                 txEntry, txMember>>

\* Lines 212-217: INSERT INTO corps_members ... ON CONFLICT (state_code) DO NOTHING.
InsertMember(p) ==
  /\ pc[p] = "insertMember"
  /\ \A q \in Clients \ {p} :
       ~(txMember[q] /\ local[q].normalizedStateCode = local[p].normalizedStateCode)
  /\ txMember' = [txMember EXCEPT ![p] =
                    local[p].normalizedStateCode \notin corps_members]
  /\ pc' = [pc EXCEPT ![p] = "insertEntry"]
  /\ sent' = NothingSent
  /\ UNCHANGED <<store, isDevMode, hashed, limiter, app, verifyLocal, txUpdate, gate, clock, queue_entries, corps_members, idSeq,
                 local, txEntry>>

NewEntry(p, id) ==
  [id |-> id,
   state_code |-> local[p].normalizedStateCode,
   queue_number |-> local[p].nextQueueNumber,
   lga_id |-> lgas[1].id,
   device_fingerprint |-> deviceFingerprint(p),
   latitude |-> local[p].userLat,
   longitude |-> local[p].userLon,
   status |-> "ACTIVE",
   date |-> local[p].today]

\* An INSERT outside the transaction: the row is in the table at once.
InsertEntryAutocommit(p) ==
  /\ pc[p] = "insertEntry"
  /\ LET row == NewEntry(p, idSeq + 1) IN
     IF ViolatesUnique(row, queue_entries)
     THEN /\ pc' = [pc EXCEPT ![p] = "catch"]
          /\ UNCHANGED <<txEntry, idSeq, queue_entries>>
     ELSE /\ queue_entries' = queue_entries \cup {row}
          /\ txEntry' = [txEntry EXCEPT ![p] = row]
          /\ idSeq' = idSeq + 1
          /\ pc' = [pc EXCEPT ![p] = "commit"]
  /\ sent' = NothingSent
  /\ UNCHANGED <<store, isDevMode, hashed, limiter, app, verifyLocal, txUpdate, gate, clock, corps_members, local, txMember>>

\* Lines 219-241: INSERT INTO queue_entries. A unique violation against a
\* committed row throws (the catch block runs next); against a row another
\* transaction has not yet committed the statement waits.
InsertEntry(p) ==
  /\ pc[p] = "insertEntry"
  /\ LET row == NewEntry(p, idSeq + 1)
         uncommitted == {txEntry[q] : q \in Clients \ {p}} \ {NoRow}
     IN
     /\ ~ViolatesUnique(row, uncommitted)
     /\ IF ViolatesUnique(row, queue_entries)
        THEN /\ pc' = [pc EXCEPT ![p] = "catch"]
             /\ UNCHANGED <<txEntry, idSeq>>
        ELSE /\ txEntry' = [txEntry EXCEPT ![p] = row]
             /\ idSeq' = idSeq + 1
             /\ pc' = [pc EXCEPT ![p] = "commit"]
  /\ sent' = NothingSent
  /\ UNCHANGED <<store, isDevMode, hashed, limiter, app, verifyLocal, txUpdate, gate, clock, queue_entries, corps_members, local, txMember>>

\* Lines 243-269: COMMIT and the 201 response.
Commit(p) ==
  /\ pc[p] = "commit"
  /\ queue_entries' = queue_entries \cup {txEntry[p]}
  /\ corps_members' = corps_members \cup
       (IF txMember[p] THEN {local[p].normalizedStateCode} ELSE {})
  /\ txEntry' = [txEntry EXCEPT ![p] = NoRow]
  /\ txMember' = [txMember EXCEPT ![p] = FALSE]
  /\ Send(p, Response(201, "", local[p].nextQueueNumber, txEntry[p].id,
                      txEntry[p].state_code, <<>>, txEntry[p].status))
  /\ UNCHANGED <<store, isDevMode, hashed, limiter, app, verifyLocal, txUpdate, gate, clock, idSeq>>

\* A catch block that answers without ROLLBACK: what the transaction wrote
\* before the failing statement stays in the table.
CatchWithoutRollback(p) ==
  /\ pc[p] = "catch"
  /\ corps_members' = corps_members \cup
       (IF txMember[p] THEN {local[p].normalizedStateCode} ELSE {})
  /\ txEntry' = [txEntry EXCEPT ![p] = NoRow]
  /\ txMember' = [txMember EXCEPT ![p] = FALSE]
  /\ Send(p, Failure(500, "Failed to generate queue number"))
  /\ UNCHANGED <<store, isDevMode, hashed, limiter, app, verifyLocal, txUpdate, gate, clock, queue_entries, idSeq>>

\* Lines 271-283: catch: ROLLBACK and the 500 response.
Catch(p) ==
  /\ pc[p] = "catch"
  /\ txEntry' = [txEntry EXCEPT ![p] = NoRow]
  /\ txMember' = [txMember EXCEPT ![p] = FALSE]
  /\ Send(p, Failure(500, "Failed to generate queue number"))
  /\ UNCHANGED <<store, isDevMode, hashed, limiter, app, verifyLocal, txUpdate, gate, clock, queue_entries, corps_members, idSeq>>

\* Time passes: from noon to the last hour of the UTC day, from there to noon
\* of the next UTC day.
Tick ==
  /\ toISODate(NextInstant(clock)) <= MaxDay
  /\ clock' = NextInstant(clock)
  /\ sent' = NothingSent
  /\ UNCHANGED <<store, isDevMode, hashed, limiter, app, verifyLocal, txUpdate, gate, queue_entries, corps_members, idSeq,
                 pc, local, txEntry, txMember>>

----------------------------------------------------------------------------
(* POST /api/queue/verify: src/src/routes/queue.js, lines 289-373 *)

\* The server process runs in UTC (serverless deployment).
SERVER_UTC_OFFSET == 0

\* A DATE column as the database driver hands it over: the instant of midnight
\* of that day in the time zone of the server process.
pgDate(date) == 24 * (date - 1) - SERVER_UTC_OFFSET

\* The check of the entry's date left out: every entry counts as today's.
entryDateToday(queueEntry) == toISODate(clock)

\* Line 323: new Date(queueEntry.date).toISOString().split('T')[0]
entryDate(queueEntry) == toISODate(pgDate(queueEntry.date))

\* An entry is marked whatever the request asked for.
ShouldMarkIgnoringFlag(mark_used, queueEntry) == queueEntry.status = "ACTIVE"

\* An entry is marked whatever its status.
ShouldMarkAnyStatus(mark_used, queueEntry) == mark_used = TRUE

\* Line 336: mark_used === true && queueEntry.status === 'ACTIVE'
ShouldMark(mark_used, queueEntry) ==
  mark_used = TRUE /\ queueEntry.status = "ACTIVE"

\* queue_entries.id is a UUID column (migrate.js, line 41): the text of a
\* reference is cast to uuid by the SELECT. References that are UUIDs are the
\* positive numbers; a negative one stands for text that is not a UUID.
IsUuid(reference_id) == reference_id > 0

\* req.body of POST /verify; reference_id 0 stands for an absent one.
VerifyBodies(ids) == [reference_id : ids, mark_used : BOOLEAN]

\* The responses of /verify: entry_status is the status the response reports.
VerifyResponse(status, error, valid, queueEntry) ==
  [status |-> status, error |-> error, valid |-> valid,
   queue_number |-> queueEntry.queue_number,
   state_code |-> queueEntry.state_code,
   lga |-> IF queueEntry.lga_id = lgas[1].id THEN lgas[1].name ELSE "",
   entry_status |-> queueEntry.status,
   date |-> toISODate(pgDate(queueEntry.date))]

NoEntry ==
  [queue_number |-> 0, state_code |-> <<>>, lga_id |-> 0, status |-> "", date |-> 0]

VerifySend(p, r) ==
  /\ Send(p, r)
  /\ verifyLocal' = [verifyLocal EXCEPT ![p] = NoVerifyLocal]

\* Lines 289-333 and, when nothing is to be marked, 346-359: the reference
\* check, BEGIN, the lookup of the entry and the check of its date. A
\* reference the SELECT cannot cast to uuid makes the query throw: the catch
\* block (lines 361-369) rolls back and answers 500.
VerifyReceive(p, body) ==
  /\ pc[p] = "idle"
  /\ UNCHANGED <<store, isDevMode, hashed, limiter, app, clock, queue_entries, corps_members, idSeq,
                 txEntry, txMember, txUpdate, gate>>
  /\ IF body.reference_id = 0
     THEN VerifySend(p, VerifyResponse(400, "Reference ID is required", FALSE, NoEntry))
     ELSE IF ~IsUuid(body.reference_id)
     THEN VerifySend(p, VerifyResponse(500, "Verification failed", FALSE, NoEntry))
     ELSE
       LET rows == {r \in queue_entries : r.id = body.reference_id} IN
       IF rows = {}
       THEN VerifySend(p, VerifyResponse(404, "Invalid reference ID", FALSE, NoEntry))
       ELSE
         LET queueEntry == CHOOSE r \in rows : TRUE
             today == toISODate(clock)
         IN
         IF entryDate(queueEntry) # today
         THEN VerifySend(p, VerifyResponse(400, "Queue number expired", FALSE, NoEntry))
         ELSE IF ShouldMark(body.mark_used, queueEntry)
         THEN /\ pc' = [pc EXCEPT ![p] = "verifyUpdate"]
              /\ verifyLocal' = [verifyLocal EXCEPT ![p] =
                   [reference_id |-> body.reference_id,
                    mark_used |-> body.mark_used, today |-> today]]
              /\ sent' = NothingSent
              /\ UNCHANGED local
         ELSE VerifySend(p, VerifyResponse(200, "", TRUE, queueEntry))

\* Lines 336-344: UPDATE queue_entries SET status = 'USED' WHERE id = $1. The
\* statement waits while another transaction holds its uncommitted update of
\* the same row.
VerifyUpdate(p) ==
  /\ pc[p] = "verifyUpdate"
  /\ \A q \in Clients \ {p} : txUpdate[q] # verifyLocal[p].reference_id
  /\ txUpdate' = [txUpdate EXCEPT ![p] = verifyLocal[p].reference_id]
  /\ pc' = [pc EXCEPT ![p] = "verifyCommit"]
  /\ sent' = NothingSent
  /\ UNCHANGED <<store, isDevMode, hashed, limiter, app, clock, queue_entries, corps_members, idSeq,
                 local, txEntry, txMember, verifyLocal, gate>>

\* A verify that deletes the entry it marks.
VerifyCommitDeletes(p) ==
  /\ pc[p] = "verifyCommit"
  /\ queue_entries' = {r \in queue_entries : r.id # txUpdate[p]}
  /\ txUpdate' = [txUpdate EXCEPT ![p] = 0]
  /\ LET queueEntry == CHOOSE r \in queue_entries : r.id = txUpdate[p] IN
     VerifySend(p, VerifyResponse(200, "", TRUE, [queueEntry EXCEPT !.status = "USED"]))
  /\ UNCHANGED <<store, isDevMode, hashed, limiter, app, clock, corps_members, idSeq,
                 txEntry, txMember, gate>>

\* Lines 346-359: COMMIT and the response, which reports the status the
\* handler set on its copy of the entry.
VerifyCommit(p) ==
  /\ pc[p] = "verifyCommit"
  /\ queue_entries' =
       {IF r.id = txUpdate[p] THEN [r EXCEPT !.status = "USED"] ELSE r :
          r \in queue_entries}
  /\ txUpdate' = [txUpdate EXCEPT ![p] = 0]
  /\ LET queueEntry == CHOOSE r \in queue_entries : r.id = txUpdate[p] IN
     VerifySend(p, VerifyResponse(200, "", TRUE, [queueEntry EXCEPT !.status = "USED"]))
  /\ UNCHANGED <<store, isDevMode, hashed, limiter, app, clock, corps_members, idSeq, txEntry, txMember, gate>>

VerifyStep(p) == VerifyUpdate(p) \/ VerifyCommit(p)

----------------------------------------------------------------------------
(* GET /api/queue/stats: src/src/routes/queue.js, lines 379-412 *)

\* COUNT(*) is a bigint, which the driver hands over as its decimal text: v is
\* the number that text spells.
BigInt(n) == [t |-> "string", v |-> n]

\* Statistics over the whole table, the date filter forgotten.
StatsAllDays(p) ==
  /\ pc[p] = "idle"
  /\ LET rows == queue_entries
         active == {r \in rows : r.status = "ACTIVE"}
         used == {r \in rows : r.status = "USED"}
     IN  sent' = [to |-> p, body |->
           [status |-> 200, error |-> "", date |-> toISODate(clock),
            lga_name |-> lgas[1].name,
            total_queued |-> BigInt(Cardinality(rows)),
            active |-> BigInt(Cardinality(active)),
            used |-> BigInt(Cardinality(used)),
            highest_number |-> Num(0)]]
  /\ UNCHANGED <<store, isDevMode, clock, queue_entries, corps_members, idSeq, pc,
                 local, txEntry, txMember, verifyLocal, txUpdate, gate,
                 hashed, limiter, app>>

\* The handler reads with one statement outside any transaction and answers.
Stats(p) ==
  /\ pc[p] = "idle"
  /\ LET today == toISODate(clock)
         rows == {r \in queue_entries : r.date = today}
         active == {r \in rows : r.status = "ACTIVE"}
         used == {r \in rows : r.status = "USED"}
     IN  sent' = [to |-> p, body |->
           IF rows # {}
           THEN [status |-> 200, error |-> "", date |-> today,
                 lga_name |-> lgas[1].name,
                 total_queued |-> BigInt(Cardinality(rows)),
                 active |-> BigInt(Cardinality(active)),
                 used |-> BigInt(Cardinality(used)),
                 highest_number |-> Num(SetMax({r.queue_number : r \in rows}))]
           ELSE [status |-> 200, error |-> "", date |-> today,
                 lga_name |-> "N/A",
                 total_queued |-> Num(0), active |-> Num(0), used |-> Num(0),
                 highest_number |-> Num(0)]]
  /\ UNCHANGED <<store, isDevMode, clock, queue_entries, corps_members, idSeq, pc,
                 local, txEntry, txMember, verifyLocal, txUpdate, gate,
                 hashed, limiter, app>>

----------------------------------------------------------------------------

Init ==
  /\ store = NoStore
  /\ isDevMode = FALSE
  /\ clock = 12
  /\ queue_entries = {}
  /\ corps_members = {}
  /\ idSeq = 0
  /\ pc = [p \in Clients |-> "idle"]
  /\ local = [p \in Clients |-> NoLocal]
  /\ txEntry = [p \in Clients |-> NoRow]
  /\ txMember = [p \in Clients |-> FALSE]
  /\ sent = NothingSent
  /\ verifyLocal = [p \in Clients |-> NoVerifyLocal]
  /\ txUpdate = [p \in Clients |-> 0]
  /\ gate = NoGate
  /\ hashed = NoHashed
  /\ limiter = NoLimiter
  /\ app = NoApp

\* The statements of a request in flight.
Step(p) ==
  \/ DeviceCheck(p)
  \/ StateCodeCheck(p)
  \/ SelectNextNumber(p)
  \/ InsertMember(p)
  \/ InsertEntry(p)
  \/ Commit(p)
  \/ Catch(p)

\* Concurrent requests of one calendar day, over all request bodies.
Next ==
  \/ \E p \in Clients : \E body \in Bodies : Receive(p, body)
  \/ \E p \in Clients : Step(p)

Spec == Init /\ [][Next]_vars

\* Concurrent requests across midnight, over the well-formed request bodies.
NextDays ==
  \/ \E p \in Clients : \E body \in DayBodies : Receive(p, body)
  \/ \E p \in Clients : Step(p)
  \/ Tick

SpecDays == Init /\ [][NextDays]_vars

\* The requests of one phone at the LGA, under either state code.
VerifyDayBodies == {b \in DayBodies : b.device_info = ChromeOnA}

\* Generate and verify requests, concurrent and across midnight.
NextVerify ==
  \/ \E p \in Clients : \E body \in VerifyDayBodies : Receive(p, body)
  \/ \E p \in Clients : Step(p)
  \/ \E p \in Clients : \E body \in VerifyBodies((-1)..(idSeq + 1)) : VerifyReceive(p, body)
  \/ \E p \in Clients : VerifyStep(p)
  \/ \E p \in Clients : Stats(p)
  \/ Tick

SpecVerify == Init /\ [][NextVerify]_vars

\* A server started with or without DEV_MODE, and requests from inside the
\* geofence: well-formed ones, one with a malformed state code, and ones
\* with incomplete or missing device information.
BypassBodies ==
  [state_code : {Str(CODE_1_RAW), Str(CODE_2), Str(CODE_BAD)},
   latitude : {Num(LGA_LATITUDE + 520)}, longitude : Longitudes,
   gps_accuracy : {Num(30)},
   device_info : {ChromeOnA, ChromeOnB, NoPlatform, Undefined}]

InitBypass ==
  /\ store = NoStore
  /\ isDevMode \in BOOLEAN
  /\ clock = 12
  /\ queue_entries = {}
  /\ corps_members = {}
  /\ idSeq = 0
  /\ pc = [p \in Clients |-> "idle"]
  /\ local = [p \in Clients |-> NoLocal]
  /\ txEntry = [p \in Clients |-> NoRow]
  /\ txMember = [p \in Clients |-> FALSE]
  /\ sent = NothingSent
  /\ verifyLocal = [p \in Clients |-> NoVerifyLocal]
  /\ txUpdate = [p \in Clients |-> 0]
  /\ gate = NoGate
  /\ hashed = NoHashed
  /\ limiter = NoLimiter
  /\ app = NoApp

NextBypass ==
  \/ \E p \in Clients : \E body \in BypassBodies : Receive(p, body)
  \/ \E p \in Clients : Step(p)

SpecBypass == InitBypass /\ [][NextBypass]_vars

\* One calendar day with two applicants, two phones and the marking of
\* entries as USED.
NextUsed ==
  \/ \E p \in Clients : \E body \in DayBodies : Receive(p, body)
  \/ \E p \in Clients : Step(p)
  \/ \E p \in Clients : \E body \in VerifyBodies(1..idSeq) :
       body.mark_used /\ VerifyReceive(p, body)
  \/ \E p \in Clients : VerifyStep(p)

SpecUsed == Init /\ [][NextUsed]_vars

\* Requests to a server started with DEV_MODE=true: no position, a position
\* that is not a number, one out of range, and a valid one 5 km from the centre.
DevLatitudes ==
  {Undefined, Str("north"), Num(LAT_RANGE + 1), Num(LGA_LATITUDE + 5000)}

DevBodies ==
  [state_code : {Str(CODE_1_RAW), Str(CODE_2)},
   latitude : DevLatitudes, longitude : Longitudes,
   gps_accuracy : {Undefined}, device_info : {ChromeOnA, ChromeOnB}]

InitDev ==
  /\ store = NoStore
  /\ isDevMode = TRUE
  /\ clock = 12
  /\ queue_entries = {}
  /\ corps_members = {}
  /\ idSeq = 0
  /\ pc = [p \in Clients |-> "idle"]
  /\ local = [p \in Clients |-> NoLocal]
  /\ txEntry = [p \in Clients |-> NoRow]
  /\ txMember = [p \in Clients |-> FALSE]
  /\ sent = NothingSent
  /\ verifyLocal = [p \in Clients |-> NoVerifyLocal]
  /\ txUpdate = [p \in Clients |-> 0]
  /\ gate = NoGate
  /\ hashed = NoHashed
  /\ limiter = NoLimiter
  /\ app = NoApp

NextDev ==
  \/ \E p \in Clients : \E body \in DevBodies : Receive(p, body)
  \/ \E p \in Clients : Step(p)

SpecDev == InitDev /\ [][NextDev]_vars

\* The fingerprints on their own: device infos of two browsers on two
\* platforms, two screens and two sets of hardware attributes.
HashDevices ==
  {Device(ua, platform, screen, meta) :
     ua \in {"Chrome", "Firefox"}, platform \in {"Linux armv8l", "iPhone"},
     screen \in {"360x800", "412x915"}, meta \in {PhoneAMeta, PhoneBMeta}}

InitHash ==
  /\ store = NoStore
  /\ isDevMode = FALSE
  /\ clock = 12
  /\ queue_entries = {}
  /\ corps_members = {}
  /\ idSeq = 0
  /\ pc = [p \in Clients |-> "idle"]
  /\ local = [p \in Clients |-> NoLocal]
  /\ txEntry = [p \in Clients |-> NoRow]
  /\ txMember = [p \in Clients |-> FALSE]
  /\ sent = NothingSent
  /\ verifyLocal = [p \in Clients |-> NoVerifyLocal]
  /\ txUpdate = [p \in Clients |-> 0]
  /\ gate = NoGate
  /\ hashed \in [called : {FALSE}, a : HashDevices, b : HashDevices]
  /\ limiter = NoLimiter
  /\ app = NoApp

\* Both fingerprints of both device infos.
Hash ==
  /\ ~hashed.called
  /\ hashed' = [called |-> TRUE, a |-> hashed.a, b |-> hashed.b,
                 strictA |-> generateFingerprint(hashed.a),
                 strictB |-> generateFingerprint(hashed.b),
                 stableA |-> generateStableFingerprint(hashed.a),
                 stableB |-> generateStableFingerprint(hashed.b)]
  /\ UNCHANGED <<store, isDevMode, clock, queue_entries, corps_members, idSeq,
                 pc, local, txEntry, txMember, sent, verifyLocal, txUpdate,
                 gate, limiter, app>>

NextHash == Hash

SpecHash == InitHash /\ [][NextHash]_vars

\* One state code in three spellings and another state code, from two phones
\* standing at the LGA.
CodeBodies ==
  [state_code : {Str(CODE_1), Str(CODE_1_RAW), Str(CODE_1_LOWER), Str(CODE_2)},
   latitude : {Num(LGA_LATITUDE + 520)}, longitude : Longitudes,
   gps_accuracy : {Num(30)}, device_info : {ChromeOnA, ChromeOnB}]

NextCodes ==
  \/ \E p \in Clients : \E body \in CodeBodies : Receive(p, body)
  \/ \E p \in Clients : Step(p)

SpecCodes == Init /\ [][NextCodes]_vars

\* queueGenerationLimiter (src/src/middleware/rateLimiter.js, lines 27-42) in
\* front of POST /generate: two client addresses, one state code in two
\* spellings.
LIMITER_MAX == 5

ClientIPs == {"41.58.0.1", "41.58.0.2"}

LimiterCodes == {Str(CODE_1), Str(CODE_1_RAW)}

\* keyGenerator: `${ip}-${stateCode}`, the state code as the body spells it.
keyGenerator(ip, body) ==
  <<ip, IF body.state_code = Undefined THEN <<>> ELSE body.state_code.v>>

LimiterKeys ==
  {keyGenerator(ip, [state_code |-> c]) : ip \in ClientIPs, c \in LimiterCodes}

InitLimiter ==
  /\ store = NoStore
  /\ isDevMode = FALSE
  /\ clock = 12
  /\ queue_entries = {}
  /\ corps_members = {}
  /\ idSeq = 0
  /\ pc = [p \in Clients |-> "idle"]
  /\ local = [p \in Clients |-> NoLocal]
  /\ txEntry = [p \in Clients |-> NoRow]
  /\ txMember = [p \in Clients |-> FALSE]
  /\ sent = NothingSent
  /\ verifyLocal = [p \in Clients |-> NoVerifyLocal]
  /\ txUpdate = [p \in Clients |-> 0]
  /\ gate = NoGate
  /\ hashed = NoHashed
  /\ limiter = [hits |-> [k \in LimiterKeys |-> 0],
                handled |-> [ip \in ClientIPs |-> 0]]
  /\ app = NoApp

\* A request passes the limiter: its key is counted; above max it is answered
\* 429, otherwise next() hands it to the handler (handled counts these per
\* address in the window).
Limit(ip, body) ==
  LET key == keyGenerator(ip, body)
      totalHits == limiter.hits[key] + 1
  IN  /\ limiter.hits[key] < MaxHits
      /\ IF totalHits > LIMITER_MAX
         THEN /\ limiter' = [limiter EXCEPT !.hits[key] = totalHits]
              /\ sent' = [to |-> 0, body |->
                   Failure(429, "Too many queue generation attempts. Please try again later")]
         ELSE /\ limiter' = [limiter EXCEPT !.hits[key] = totalHits,
                                            !.handled[ip] = @ + 1]
              /\ sent' = NothingSent
      /\ UNCHANGED <<store, isDevMode, clock, queue_entries, corps_members, idSeq,
                     pc, local, txEntry, txMember, verifyLocal, txUpdate,
                     gate, hashed, app>>

\* windowMs have passed: the counters start again.
WindowEnds ==
  /\ \E k \in LimiterKeys : limiter.hits[k] > 0
  /\ limiter' = [hits |-> [k \in LimiterKeys |-> 0],
                 handled |-> [ip \in ClientIPs |-> 0]]
  /\ sent' = NothingSent
  /\ UNCHANGED <<store, isDevMode, clock, queue_entries, corps_members, idSeq,
                 pc, local, txEntry, txMember, verifyLocal, txUpdate,
                 gate, hashed, app>>

NextLimiter ==
  \/ \E ip \in ClientIPs : \E c \in LimiterCodes : Limit(ip, [state_code |-> c])
  \/ WindowEnds

SpecLimiter == InitLimiter /\ [][NextLimiter]_vars

\* The page's acquisition of the GPS position: public/app.js, lines 46-176.
Null == [t |-> "null"]

GOOD_ACCURACY_M == 50

\* position.coords of the readings the browser delivers.
Positions ==
  [latitude : {LGA_LATITUDE - 40, LGA_LATITUDE, LGA_LATITUDE + 520},
   longitude : {LGA_LONGITUDE - 1, LGA_LONGITUDE, LGA_LONGITUDE + 1},
   accuracy : {5, 20, 50, 51, 80, 120, 200, 500}]

\* error.code of a GeolocationPositionError.
PERMISSION_DENIED == "PERMISSION_DENIED"
POSITION_UNAVAILABLE == "POSITION_UNAVAILABLE"
TIMEOUT == "TIMEOUT"
ErrorCodes == {PERMISSION_DENIED, POSITION_UNAVAILABLE, TIMEOUT}

\* locationInfo.innerHTML: its text and the accuracy it shows.
LocationInfo(text, accuracy) == [text |-> text, accuracy |-> accuracy]

\* The page after DOMContentLoaded, before requestLocation runs: no position,
\* the form blocked until the first reading; the browser has navigator.geolocation
\* or not.
InitLocation ==
  /\ store = NoStore
  /\ isDevMode = FALSE
  /\ clock = 12
  /\ queue_entries = {}
  /\ corps_members = {}
  /\ idSeq = 0
  /\ pc = [p \in Clients |-> "idle"]
  /\ local = [p \in Clients |-> NoLocal]
  /\ txEntry = [p \in Clients |-> NoRow]
  /\ txMember = [p \in Clients |-> FALSE]
  /\ sent = NothingSent
  /\ verifyLocal = [p \in Clients |-> NoVerifyLocal]
  /\ txUpdate = [p \in Clients |-> 0]
  /\ gate = NoGate
  /\ hashed = NoHashed
  /\ limiter = NoLimiter
  /\ \E geolocation \in BOOLEAN :
       app = [loaded |-> TRUE, geolocation |-> geolocation, requested |-> FALSE,
              userLocation |-> Null, watchId |-> Null, watchTimer |-> Null,
              gotFirstFix |-> FALSE, submitDisabled |-> TRUE,
              locationInfo |-> LocationInfo("", 0)]

\* Lines 172-176.
showLocationError(a, message) ==
  [a EXCEPT !.locationInfo = LocationInfo(message, 0), !.submitDisabled = TRUE]

\* Lines 76-85.
stopWatch(a) == [a EXCEPT !.watchId = Null, !.watchTimer = Null]

\* Lines 58-74 and 141-153: the watch and its timer are started.
requestLocation ==
  /\ app.loaded
  /\ ~app.requested
  /\ app' = IF ~app.geolocation
            THEN showLocationError([app EXCEPT !.requested = TRUE],
                                   "GPS is not supported by your browser")
            ELSE [app EXCEPT !.requested = TRUE,
                             !.locationInfo = LocationInfo("Acquiring GPS location", 0),
                             !.watchId = Num(1), !.watchTimer = Num(1),
                             !.gotFirstFix = FALSE]
  /\ UNCHANGED <<store, isDevMode, clock, queue_entries, corps_members, idSeq, pc,
                 local, txEntry, txMember, sent, verifyLocal, txUpdate, gate,
                 hashed, limiter>>

\* An onPosition that stores every reading.
onPositionAnyFix(position) ==
  /\ app.loaded
  /\ app.watchId # Null
  /\ LET stored == [app EXCEPT !.userLocation = position, !.gotFirstFix = TRUE,
                               !.submitDisabled = FALSE,
                               !.locationInfo =
                                 LocationInfo("GPS Location Acquired", position.accuracy)]
     IN  app' = IF position.accuracy <= GOOD_ACCURACY_M
                THEN [stopWatch(stored) EXCEPT !.locationInfo =
                        LocationInfo("GPS Location Ready", position.accuracy)]
                ELSE stored
  /\ UNCHANGED <<store, isDevMode, clock, queue_entries, corps_members, idSeq, pc,
                 local, txEntry, txMember, sent, verifyLocal, txUpdate, gate,
                 hashed, limiter>>

\* Lines 87-120: a reading of the watch.
onPosition(position) ==
  /\ app.loaded
  /\ app.watchId # Null
  /\ LET accepted == ~app.gotFirstFix \/ position.accuracy < app.userLocation.accuracy
         stored == IF accepted
                   THEN [app EXCEPT !.userLocation = position,
                                    !.gotFirstFix = TRUE,
                                    !.submitDisabled =
                                      IF ~app.gotFirstFix THEN FALSE ELSE @,
                                    !.locationInfo =
                                      LocationInfo("GPS Location Acquired",
                                                   position.accuracy)]
                   ELSE app
     IN  app' = IF position.accuracy <= GOOD_ACCURACY_M
                THEN [stopWatch(stored) EXCEPT !.locationInfo =
                        LocationInfo("GPS Location Ready", position.accuracy)]
                ELSE stored
  /\ UNCHANGED <<store, isDevMode, clock, queue_entries, corps_members, idSeq, pc,
                 local, txEntry, txMember, sent, verifyLocal, txUpdate, gate,
                 hashed, limiter>>

\* Lines 122-139: an error of the watch.
onError(code) ==
  /\ app.loaded
  /\ app.watchId # Null
  /\ app' = IF app.gotFirstFix
            THEN app
            ELSE showLocationError(stopWatch(app),
                   CASE code = PERMISSION_DENIED ->
                          "Location permission denied. Please enable GPS access."
                     [] code = POSITION_UNAVAILABLE ->
                          "Location information unavailable. Please try again outdoors."
                     [] code = TIMEOUT ->
                          "Location request timed out. Please try again."
                     [] OTHER -> "Unable to get your location")
  /\ UNCHANGED <<store, isDevMode, clock, queue_entries, corps_members, idSeq, pc,
                 local, txEntry, txMember, sent, verifyLocal, txUpdate, gate,
                 hashed, limiter>>

\* Lines 145-153: MAX_WATCH_MS after the start the timer stops the watch.
watchTimer ==
  /\ app.loaded
  /\ app.watchTimer # Null
  /\ app' = IF app.gotFirstFix
            THEN [stopWatch(app) EXCEPT !.locationInfo =
                    LocationInfo("GPS Location Ready", app.userLocation.accuracy)]
            ELSE stopWatch(app)
  /\ UNCHANGED <<store, isDevMode, clock, queue_entries, corps_members, idSeq, pc,
                 local, txEntry, txMember, sent, verifyLocal, txUpdate, gate,
                 hashed, limiter>>

NextLocation ==
  \/ requestLocation
  \/ \E position \in Positions : onPosition(position)
  \/ \E code \in ErrorCodes : onError(code)
  \/ watchTimer

SpecLocation == InitLocation /\ [][NextLocation]_vars

\* The connection, the transaction and the response of a request when the
\* store can fail: the statements of POST /generate and POST /verify in the
\* order the handlers await them (queue.js, lines 28-283 and 289-373).
Statements(route) ==
  IF route = "generate"
  THEN <<"BEGIN", "SELECT lgas", "SELECT device", "SELECT state_code",
         "SELECT MAX", "INSERT corps_members", "INSERT queue_entries", "COMMIT">>
  ELSE <<"BEGIN", "SELECT entry", "UPDATE", "COMMIT">>

\* The lookups after which a handler may ROLLBACK and return (503 and the
\* geofence 403, the device 200 and 403, the state-code 401; 404 and expired).
Returns == {"SELECT lgas", "SELECT device", "SELECT state_code", "SELECT entry"}

\* The statements the store rejects while it is up: a unique violation, a
\* reference that is no uuid.
Throws == {"INSERT queue_entries", "SELECT entry"}

NoRequest ==
  [route |-> "none", at |-> "idle", k |-> 0, client |-> "none", tx |-> FALSE,
   thrown |-> FALSE, answers |-> 0, releases |-> 0]

InitStore ==
  /\ store = [up |-> TRUE, req |-> [p \in Clients |-> NoRequest], openTx |-> FALSE]
  /\ isDevMode = FALSE
  /\ clock = 12
  /\ queue_entries = {}
  /\ corps_members = {}
  /\ idSeq = 0
  /\ pc = [p \in Clients |-> "idle"]
  /\ local = [p \in Clients |-> NoLocal]
  /\ txEntry = [p \in Clients |-> NoRow]
  /\ txMember = [p \in Clients |-> FALSE]
  /\ sent = NothingSent
  /\ verifyLocal = [p \in Clients |-> NoVerifyLocal]
  /\ txUpdate = [p \in Clients |-> 0]
  /\ gate = NoGate
  /\ hashed = NoHashed
  /\ limiter = NoLimiter
  /\ app = NoApp

\* The store becomes unreachable: the connections in use are lost, and with
\* them their transactions.
storeOutage ==
  /\ store.up
  /\ store' = [store EXCEPT !.up = FALSE,
                            !.req = [p \in Clients |->
                              IF store.req[p].client = "live"
                              THEN [store.req[p] EXCEPT !.client = "lost", !.tx = FALSE]
                              ELSE store.req[p]]]
  /\ UNCHANGED <<isDevMode, clock, queue_entries, corps_members, idSeq, pc,
                 local, txEntry, txMember, sent, verifyLocal, txUpdate, gate,
                 hashed, limiter, app>>

storeRecovers ==
  /\ ~store.up
  /\ store' = [store EXCEPT !.up = TRUE]
  /\ UNCHANGED <<isDevMode, clock, queue_entries, corps_members, idSeq, pc,
                 local, txEntry, txMember, sent, verifyLocal, txUpdate, gate,
                 hashed, limiter, app>>

\* A request reaches its handler; a request that was dropped stays open.
request(p, route) ==
  /\ store.req[p].at \in {"idle", "done"}
  /\ store' = [store EXCEPT !.req[p] =
                 [NoRequest EXCEPT !.route = route, !.at = "connect"]]
  /\ UNCHANGED <<isDevMode, clock, queue_entries, corps_members, idSeq, pc,
                 local, txEntry, txMember, sent, verifyLocal, txUpdate, gate,
                 hashed, limiter, app>>

\* Lines 29 and 290: const client = await pool.connect(), before the try.
poolConnect(p) ==
  /\ store.req[p].at = "connect"
  /\ store' = IF store.up
              THEN [store EXCEPT !.req[p].client = "live", !.req[p].at = "validate"]
              ELSE [store EXCEPT !.req[p].thrown = TRUE, !.req[p].at = "rejected"]
  /\ UNCHANGED <<isDevMode, clock, queue_entries, corps_members, idSeq, pc,
                 local, txEntry, txMember, sent, verifyLocal, txUpdate, gate,
                 hashed, limiter, app>>

\* Lines 40-77 and 295-299: the checks before BEGIN; a failed one answers 400
\* and returns.
validationReturn(p, valid) ==
  /\ store.req[p].at = "validate"
  /\ store' = IF valid
              THEN [store EXCEPT !.req[p].at = "query", !.req[p].k = 1]
              ELSE [store EXCEPT !.req[p].answers = @ + 1, !.req[p].at = "finally"]
  /\ UNCHANGED <<isDevMode, clock, queue_entries, corps_members, idSeq, pc,
                 local, txEntry, txMember, sent, verifyLocal, txUpdate, gate,
                 hashed, limiter, app>>

\* await client.query(..) of the statement the handler is at. On a lost
\* connection it throws. The COMMIT is followed by the response.
clientQuery(p, outcome) ==
  LET r == store.req[p]
      stmt == Statements(r.route)[r.k]
  IN  /\ r.at = "query"
      /\ outcome = "throw" => stmt \in Throws
      /\ outcome = "return" => stmt \in Returns
      /\ outcome = "skip" => stmt = "SELECT entry"
      /\ store' =
           IF r.client # "live" \/ outcome = "throw"
           THEN [store EXCEPT !.req[p].at = "catch"]
           ELSE IF outcome = "return"
           THEN [store EXCEPT !.req[p].at = "rollback"]
           ELSE IF stmt = "COMMIT"
           THEN [store EXCEPT !.req[p].tx = FALSE, !.req[p].answers = @ + 1,
                              !.req[p].at = "finally"]
           ELSE [store EXCEPT !.req[p].tx = (stmt = "BEGIN") \/ @,
                              !.req[p].k = IF outcome = "skip" THEN @ + 2 ELSE @ + 1]
      /\ UNCHANGED <<isDevMode, clock, queue_entries, corps_members, idSeq, pc,
                 local, txEntry, txMember, sent, verifyLocal, txUpdate, gate,
                 hashed, limiter, app>>

\* An early return that leaves the transaction open.
returnWithoutRollback(p) ==
  /\ store.req[p].at = "rollback"
  /\ store' = [store EXCEPT !.req[p].answers = @ + 1, !.req[p].at = "finally"]
  /\ UNCHANGED <<isDevMode, clock, queue_entries, corps_members, idSeq, pc,
                 local, txEntry, txMember, sent, verifyLocal, txUpdate, gate,
                 hashed, limiter, app>>

\* Lines 88, 122, 150, 193, 312, 327: await client.query('ROLLBACK') and the
\* response of an early return.
rollbackAndReturn(p) ==
  /\ store.req[p].at = "rollback"
  /\ store' = IF store.req[p].client = "live"
              THEN [store EXCEPT !.req[p].tx = FALSE, !.req[p].answers = @ + 1,
                                 !.req[p].at = "finally"]
              ELSE [store EXCEPT !.req[p].at = "catch"]
  /\ UNCHANGED <<isDevMode, clock, queue_entries, corps_members, idSeq, pc,
                 local, txEntry, txMember, sent, verifyLocal, txUpdate, gate,
                 hashed, limiter, app>>

\* Lines 271-279 and 361-369: the catch block. Its ROLLBACK is awaited before
\* the 500 is sent: when it throws, the block is left without a response.
catchRollback(p) ==
  /\ store.req[p].at = "catch"
  /\ store' = IF store.req[p].client = "live"
              THEN [store EXCEPT !.req[p].tx = FALSE, !.req[p].answers = @ + 1,
                                 !.req[p].at = "finally"]
              ELSE [store EXCEPT !.req[p].thrown = TRUE, !.req[p].at = "finally"]
  /\ UNCHANGED <<isDevMode, clock, queue_entries, corps_members, idSeq, pc,
                 local, txEntry, txMember, sent, verifyLocal, txUpdate, gate,
                 hashed, limiter, app>>

\* Lines 280-282 and 370-372: finally, client.release().
finallyRelease(p) ==
  LET r == store.req[p] IN
  /\ r.at = "finally"
  /\ store' = [store EXCEPT !.openTx = @ \/ (r.tx /\ r.client = "live"),
                            !.req[p].releases = @ + 1,
                            !.req[p].client = "none",
                            !.req[p].tx = FALSE,
                            !.req[p].at = IF r.thrown THEN "rejected" ELSE "done"]
  /\ UNCHANGED <<isDevMode, clock, queue_entries, corps_members, idSeq, pc,
                 local, txEntry, txMember, sent, verifyLocal, txUpdate, gate,
                 hashed, limiter, app>>

\* The promise of the async handler is rejected. Express 4 does not observe
\* it and the request gets no response; Express 5 passes the error to the
\* global error handler (server.js), which answers 500.
unhandledRejection(p, express) ==
  /\ store.req[p].at = "rejected"
  /\ store' = IF express = 5
              THEN [store EXCEPT !.req[p].answers = @ + 1, !.req[p].at = "done"]
              ELSE [store EXCEPT !.req[p].at = "dropped"]
  /\ UNCHANGED <<isDevMode, clock, queue_entries, corps_members, idSeq, pc,
                 local, txEntry, txMember, sent, verifyLocal, txUpdate, gate,
                 hashed, limiter, app>>

HandlerStep(p) ==
  \/ poolConnect(p)
  \/ \E valid \in BOOLEAN : validationReturn(p, valid)
  \/ \E outcome \in {"proceed", "skip", "return", "throw"} : clientQuery(p, outcome)
  \/ rollbackAndReturn(p)
  \/ catchRollback(p)
  \/ finallyRelease(p)
  \/ \E express \in {4, 5} : unhandledRejection(p, express)

NextStore ==
  \/ storeOutage
  \/ storeRecovers
  \/ \E p \in Clients : \E route \in {"generate", "verify"} : request(p, route)
  \/ \E p \in Clients : HandlerStep(p)

SpecStore == InitStore /\ [][NextStore]_vars

\* Every handler that can take a step eventually takes one.
SpecStoreFair ==
  SpecStore /\ \A p \in Clients : WF_vars(HandlerStep(p))

\* The geofence check on its own: positions north and south of the LGA centre,
\* reported accuracies and radii of the LGA row.
GateOffsets == {-700, -520, 0, 100, 490, 500, 501, 520, 640, 650, 651, 700}
GateAccuracies ==
  {Undefined, Num(-20), Num(0), Num(30), Num(150), Num(151), Num(1000)}
GateRadii == {100, LGA_RADIUS}

GateCalls ==
  [called : {FALSE}, userLat : {LGA_LATITUDE + d : d \in GateOffsets},
   gps_accuracy : GateAccuracies, radius_meters : GateRadii]

InitGate ==
  /\ store = NoStore
  /\ isDevMode = FALSE
  /\ clock = 12
  /\ queue_entries = {}
  /\ corps_members = {}
  /\ idSeq = 0
  /\ pc = [p \in Clients |-> "idle"]
  /\ local = [p \in Clients |-> NoLocal]
  /\ txEntry = [p \in Clients |-> NoRow]
  /\ txMember = [p \in Clients |-> FALSE]
  /\ sent = NothingSent
  /\ verifyLocal = [p \in Clients |-> NoVerifyLocal]
  /\ txUpdate = [p \in Clients |-> 0]
  /\ gate \in GateCalls
  /\ hashed = NoHashed
  /\ limiter = NoLimiter
  /\ app = NoApp

\* Lines 108-119 of queue.js: the accuracy the handler passes on and the call
\* of isWithinGeofence for the LGA row.
CheckGeofence ==
  /\ ~gate.called
  /\ LET lga == [lgas[1] EXCEPT !.radius_meters = gate.radius_meters]
         accuracyMeters == AccuracyMeters(gate.gps_accuracy)
     IN  gate' = [called |-> TRUE,
                  userLat |-> gate.userLat,
                  gps_accuracy |-> gate.gps_accuracy,
                  radius_meters |-> gate.radius_meters,
                  accuracyMeters |-> accuracyMeters,
                  geofenceCheck |->
                    isWithinGeofence(gate.userLat, lga.longitude, lga.latitude,
                                     lga.longitude, lga.radius_meters,
                                     accuracyMeters)]
  /\ UNCHANGED <<store, isDevMode, hashed, limiter, app, clock, queue_entries, corps_members, idSeq,
                 pc, local, txEntry, txMember, sent, verifyLocal, txUpdate>>

NextGate == CheckGeofence

SpecGate == InitGate /\ [][NextGate]_vars

----------------------------------------------------------------------------
(* Properties of the committed queue entries *)

EntriesOf(date) == {r \in queue_entries : r.date = date}

\* C1: no two committed queue entries of one (LGA, date) carry the same queue
\* number, whatever the interleaving of the generate requests.
C1_UniqueQueueNumber ==
  \A a \in queue_entries : \A b \in queue_entries :
    (a # b /\ a.date = b.date) => a.queue_number # b.queue_number

\* Two requests raced for one queue number: one committed it, the insert of
\* the other met the unique constraint on the number alone.
C1_Witness ==
  \E p \in Clients :
    /\ pc[p] = "catch"
    /\ ViolatesUniqueQueueNumber(NewEntry(p, 0), queue_entries)
    /\ ~ViolatesUniqueStateCode(NewEntry(p, 0), queue_entries)

\* C4: at most one committed queue entry of one (LGA, date) per normalised
\* state code.
C4_UniqueStateCode ==
  \A a \in queue_entries : \A b \in queue_entries :
    (a # b /\ a.date = b.date) => a.state_code # b.state_code

\* A request passed both lookups, then met the committed entry of its own
\* state code at the insert, with a queue number that was still free.
C4_Witness ==
  \E p \in Clients :
    /\ pc[p] = "catch"
    /\ ViolatesUniqueStateCode(NewEntry(p, 0), queue_entries)
    /\ ~ViolatesUniqueQueueNumber(NewEntry(p, 0), queue_entries)

C5_Contiguous ==
  \A d \in Days :
    {r.queue_number : r \in EntriesOf(d)} = 1..Cardinality(EntriesOf(d))

C5_IssuedInOrder ==
  \A r \in queue_entries' \ queue_entries :
    \A old \in EntriesOf(r.date) : r.queue_number > old.queue_number

\* C5: the queue numbers of one (LGA, date) are exactly 1..k for its k
\* committed entries, also after failed allocations, and every newly committed
\* entry carries a number greater than all earlier ones of that (LGA, date).
C5_ContiguousInOrder == []C5_Contiguous /\ [][C5_IssuedInOrder]_vars

\* A date holds two entries while another allocation has failed and is about
\* to be rolled back.
C5_Witness ==
  /\ \E d \in Days : Cardinality(EntriesOf(d)) >= 2
  /\ \E p \in Clients : pc[p] = "catch"

----------------------------------------------------------------------------
(* Properties of the decisions of a generate request *)

IsDeviceAlreadyUsed(r) ==
  r.status = 403 /\ r.error = "One queue per device limit exceeded"

IsIdentityAlreadyUsed(r) ==
  r.status = 401 /\ r.error = "State code already used"

\* The stable fingerprint of the device a strict fingerprint was taken from.
StableOf(fingerprint) ==
  generateStableFingerprint(
    CHOOSE d \in CompleteDevices : generateFingerprint(d) = fingerprint)

\* The any-signal rule: the entry was issued to the same browser (strict
\* fingerprint) or to the same hardware (stable fingerprint). A request carries
\* no network address into the handler.
SameDevice(r, deviceInfo) ==
  \/ r.device_fingerprint = generateFingerprint(deviceInfo)
  \/ StableOf(r.device_fingerprint) = generateStableFingerprint(deviceInfo)

\* The entries of the request's (LGA, date).
Today(p) == EntriesOf(local[p].today)

\* The request's device already holds an entry under another state code.
DeviceHeld(p) ==
  \E r \in Today(p) :
    /\ SameDevice(r, local[p].device_info)
    /\ r.state_code # local[p].normalizedStateCode

\* The request's state code already holds an entry bound to another device.
BoundElsewhere(p) ==
  \E r \in Today(p) :
    /\ r.state_code = local[p].normalizedStateCode
    /\ ~SameDevice(r, local[p].device_info)

\* The request of p takes its lookup step `at`.
Leaves(p, at) == pc[p] = at /\ pc'[p] # at

Answered(p) == sent'.to = p

\* C2: each of N concurrent requests with pairwise distinct state codes and
\* pairwise distinct devices ends with a queue entry: an allocation fails only
\* if its state code or its device meets a committed entry of its (LGA, date).
C2_DistinctRequestsAllAllocated ==
  \A p \in Clients :
    pc[p] = "catch" =>
      \E r \in Today(p) :
        \/ r.state_code = local[p].normalizedStateCode
        \/ SameDevice(r, local[p].device_info)

\* C3: at most one committed queue entry of one (LGA, date) per device; stated
\* for the device fingerprint an entry stores, which two entries of one device
\* identity share whatever the matching rule.
C3_OneEntryPerDevice ==
  \A a \in queue_entries : \A b \in queue_entries :
    (a # b /\ a.date = b.date) => a.device_fingerprint # b.device_fingerprint

\* C6: when the device of a request matches, on any signal, an entry of its
\* (LGA, date) issued under another state code, the device lookup denies it
\* with the 403 of the device limit, and no entry is created.
C6_AnySignalDenied ==
  [][\A p \in Clients :
       (Leaves(p, "deviceCheck") /\ DeviceHeld(p)) =>
         /\ Answered(p)
         /\ IsDeviceAlreadyUsed(sent'.body)
         /\ queue_entries' = queue_entries]_vars

\* C7: a request that repeats the state code and the device of a committed
\* entry of its (LGA, date) is answered 200 with the queue number and the id of
\* that entry, and creates no entry.
C7_ResubmissionReturnsEntry ==
  [][\A p \in Clients :
       \A r \in Today(p) :
         ( /\ Leaves(p, "deviceCheck")
           /\ r.state_code = local[p].normalizedStateCode
           /\ r.device_fingerprint = deviceFingerprint(p) ) =>
           /\ Answered(p)
           /\ sent'.body.status = 200
           /\ sent'.body.queue_number = r.queue_number
           /\ sent'.body.reference_id = r.id
           /\ queue_entries' = queue_entries]_vars

\* The request leaves the device lookup for the state-code lookup.
PassesDeviceCheck(p) ==
  pc[p] = "deviceCheck" /\ pc'[p] = "stateCodeCheck" /\ queue_entries' = queue_entries

DeniedIdentity(p) ==
  Answered(p) /\ IsIdentityAlreadyUsed(sent'.body) /\ queue_entries' = queue_entries

DeniedDevice(p) ==
  /\ pc[p] = "deviceCheck"
  /\ Answered(p)
  /\ IsDeviceAlreadyUsed(sent'.body)
  /\ \E r \in Today(p) : r.device_fingerprint = deviceFingerprint(p)
  /\ queue_entries' = queue_entries

InLookups(p) == Leaves(p, "deviceCheck") \/ Leaves(p, "stateCodeCheck")

\* C8, as claimed: a request whose state code holds an entry bound to another
\* device leaves the two lookups only with the 401 of the state-code check,
\* whatever else the table holds.
C8_AlwaysIdentityAlreadyUsed ==
  [][\A p \in Clients :
       (InLookups(p) /\ BoundElsewhere(p)) =>
         (PassesDeviceCheck(p) \/ DeniedIdentity(p))]_vars

\* C8, amended: such a request is denied and creates no entry: with the 403 of
\* the device limit when the device lookup finds an entry of its own device,
\* with the 401 of the state-code check otherwise.
C8_DeniedByFirstLookup ==
  [][\A p \in Clients :
       (InLookups(p) /\ BoundElsewhere(p)) =>
         (PassesDeviceCheck(p) \/ DeniedIdentity(p) \/ DeniedDevice(p))]_vars

\* The 403 of the device limit was sent for a state code that holds an entry
\* bound to another device than the one the request came from.
C8_Witness ==
  /\ IsDeviceAlreadyUsed(sent.body)
  /\ \E e \in queue_entries : \E r \in queue_entries :
       /\ e.queue_number = sent.body.queue_number
       /\ e.state_code = sent.body.state_code
       /\ r.state_code = sent.body.attempted
       /\ r.device_fingerprint # e.device_fingerprint
       /\ StableOf(r.device_fingerprint) # StableOf(e.device_fingerprint)

\* C9: when the device of a request matches an entry issued under another
\* state code and its state code holds an entry bound to another device, the
\* device lookup answers, with the 403 of the device limit carrying the queue
\* number and the state code of the entry of the device.
C9_DeviceLookupFirst ==
  [][\A p \in Clients :
       (Leaves(p, "deviceCheck") /\ DeviceHeld(p) /\ BoundElsewhere(p)) =>
         /\ Answered(p)
         /\ IsDeviceAlreadyUsed(sent'.body)
         /\ \E r \in Today(p) :
              /\ SameDevice(r, local[p].device_info)
              /\ r.state_code # local[p].normalizedStateCode
              /\ sent'.body.queue_number = r.queue_number
              /\ sent'.body.state_code = r.state_code]_vars

FailsFormat(body) == ~validateStateCode(body.state_code).valid

FailsLocation(body) ==
  ~isDevMode /\ ~validateLocation(body.latitude, body.longitude).valid

FailsGeofence(body) ==
  LET loc == validateLocation(body.latitude, body.longitude) IN
  /\ ~isDevMode
  /\ loc.valid
  /\ ~isWithinGeofence(loc.latitude, loc.longitude, lgas[1].latitude,
                       lgas[1].longitude, lgas[1].radius_meters,
                       AccuracyMeters(body.gps_accuracy)).isWithin

FailsDevice(body) ==
  body.device_info = Undefined \/ ~validateDeviceInfo(body.device_info).valid

\* The denial the claimed order of the checks gives a request.
ClaimedDenial(body) ==
  IF FailsFormat(body) THEN "InvalidFormat"
  ELSE IF FailsLocation(body) THEN "InvalidLocation"
  ELSE IF FailsGeofence(body) THEN "OutsideGeofence"
  ELSE IF FailsDevice(body) THEN "IncompleteDeviceInfo"
  ELSE "none"

DenialKind(r) ==
  IF r.status = 400 /\ r.error \in {"State code is required",
                                   "Invalid state code format. Expected: NY/23A/1234"}
  THEN "InvalidFormat"
  ELSE IF r.status = 400 /\ r.error \in {"GPS coordinates are required",
                                        "Invalid GPS coordinates",
                                        "Latitude must be between -90 and 90",
                                        "Longitude must be between -180 and 180"}
  THEN "InvalidLocation"
  ELSE IF r.status = 403 /\ r.error = "You are outside the allowed LGA area"
  THEN "OutsideGeofence"
  ELSE IF r.status = 400 /\ r.error \in {"Device information is required",
                                        "Incomplete device information"}
  THEN "IncompleteDeviceInfo"
  ELSE "none"

\* C10: a request that fails one or more of the checks is answered with the
\* denial of the earliest failing one in the order state-code format, position,
\* geofence, device attributes (and these before the two lookups).
C10_EarliestFailingCheck ==
  [][\A p \in Clients : \A body \in Bodies :
       (Receive(p, body) /\ ClaimedDenial(body) # "none") =>
         (Answered(p) /\ DenialKind(sent'.body) = ClaimedDenial(body))]_vars

----------------------------------------------------------------------------
(* Properties of the transaction of a generate request *)

\* C11: a request whose INSERT met a unique violation caused by a concurrent
\* allocation is not answered with the generic 500 on that first conflict (it
\* re-runs its decision from the device lookup instead).
C11_ConflictRetried ==
  [][\A p \in Clients :
       (pc[p] = "catch" /\ Answered(p)) => sent'.body.status # 500]_vars

GenerateStates ==
  {"deviceCheck", "stateCodeCheck", "nextNumber", "insertMember",
   "insertEntry", "commit", "catch"}

\* Every column of the row is set.
CompleteEntry(r) ==
  /\ r.id >= 1
  /\ r.queue_number >= 1
  /\ r.lga_id = lgas[1].id
  /\ patternTest(r.state_code)
  /\ r.device_fingerprint \in {generateFingerprint(d) : d \in CompleteDevices}
  /\ r.latitude # 0
  /\ r.longitude # 0
  /\ r.date \in Days
  /\ r.status \in {"ACTIVE", "USED"}

C12_NoPartialEntry == \A r \in queue_entries : CompleteEntry(r)

\* A step of a generate request changes the committed tables only when it
\* answers 201, and then by one complete ACTIVE entry, the one the 201 reports.
C12_CommitOrNoEffect ==
  \A p \in Clients :
    (pc[p] \in GenerateStates /\ pc'[p] # pc[p]) =>
      IF Answered(p) /\ sent'.body.status = 201
      THEN \E r \in queue_entries' :
             /\ queue_entries' = queue_entries \cup {r}
             /\ r \notin queue_entries
             /\ CompleteEntry(r)
             /\ r.status = "ACTIVE"
             /\ r.id = sent'.body.reference_id
             /\ r.queue_number = sent'.body.queue_number
      ELSE /\ queue_entries' = queue_entries
           /\ corps_members' = corps_members

----------------------------------------------------------------------------
(* Properties of the verify requests *)

Expired(r) == r.status = 400 /\ r.error = "Queue number expired"

\* The entry a verify request refers to, if there is one.
Referred(body) == {r \in queue_entries : r.id = body.reference_id}

C13_StatusChange ==
  /\ \A r \in queue_entries : \E n \in queue_entries' : n.id = r.id
  /\ \A r \in queue_entries : \A n \in queue_entries' :
       (n.id = r.id /\ n.status # r.status) =>
         /\ r.status = "ACTIVE"
         /\ n.status = "USED"
         /\ \E p \in Clients :
              /\ pc[p] = "verifyCommit"
              /\ Answered(p)
              /\ txUpdate[p] = r.id
              /\ verifyLocal[p].mark_used = TRUE
              /\ verifyLocal[p].today = r.date

\* C13: over any run of generate and verify requests an entry stays in the
\* table and its status changes only from ACTIVE to USED (hence at most once),
\* and only at the COMMIT of a verify request that carried mark_used true and
\* found the entry's date equal to the day it read as today.
C13_OnlyActiveToUsed == [][C13_StatusChange]_vars

\* An entry marked USED on its day is still USED on a later day, next to an
\* entry issued on that later day.
C13_Witness ==
  \E r \in queue_entries : \E n \in queue_entries :
    /\ r.status = "USED"
    /\ n.date > r.date
    /\ toISODate(clock) = n.date

\* C14: of the concurrent verify requests that mark one ACTIVE entry, one
\* performs the change to USED and no other writes the status: every UPDATE
\* that commits finds the entry ACTIVE.
C14_OneStatusWrite ==
  [][\A p \in Clients :
       (pc[p] = "verifyCommit" /\ Answered(p)) =>
         \A r \in queue_entries : r.id = txUpdate[p] => r.status = "ACTIVE"]_vars

\* C15: a verify request with mark_used true for an entry of today that is
\* already USED is answered 200 reporting USED, issues no UPDATE and leaves the
\* table as it is.
C15_RedundantMarkIsNoOp ==
  [][\A p \in Clients : \A body \in VerifyBodies(1..idSeq) :
       \A r \in Referred(body) :
         ( /\ body.mark_used = TRUE
           /\ r.status = "USED"
           /\ r.date = toISODate(clock)
           /\ VerifyReceive(p, body) ) =>
           /\ Answered(p)
           /\ sent'.body.status = 200
           /\ sent'.body.valid = TRUE
           /\ sent'.body.entry_status = "USED"
           /\ sent'.body.queue_number = r.queue_number
           /\ pc'[p] = "idle"
           /\ txUpdate' = txUpdate
           /\ queue_entries' = queue_entries]_vars

\* A 200 reporting USED was sent while no UPDATE was in flight or committed in
\* that step: the answer to a request for an entry that was USED already.
C15_Witness ==
  /\ sent.to \in Clients
  /\ "entry_status" \in DOMAIN sent.body
  /\ sent.body.status = 200
  /\ sent.body.error = ""
  /\ sent.body.entry_status = "USED"
  /\ \E r \in queue_entries :
       /\ r.queue_number = sent.body.queue_number
       /\ r.date = sent.body.date
       /\ r.status = "USED"
  /\ \A p \in Clients : pc[p] = "idle"

\* C16: a verify request for an entry whose date is not today is answered
\* with the 400 of an expired queue number whatever the entry's status and
\* whatever mark_used, and the table stays as it is.
C16_OtherDayExpired ==
  [][\A p \in Clients : \A body \in VerifyBodies(1..idSeq) :
       \A r \in Referred(body) :
         (r.date # toISODate(clock) /\ VerifyReceive(p, body)) =>
           /\ Answered(p)
           /\ Expired(sent'.body)
           /\ sent'.body.valid = FALSE
           /\ pc'[p] = "idle"
           /\ txUpdate' = txUpdate
           /\ queue_entries' = queue_entries]_vars

\* The 400 of an expired queue number was sent while every entry of the table
\* is USED and of another day than today.
C16_Witness ==
  /\ Expired(sent.body)
  /\ queue_entries # {}
  /\ \A r \in queue_entries : r.status = "USED" /\ r.date # toISODate(clock)

\* C17: the day a generate request reads as today (for its lookups and for the
\* date of the entry it creates) is the calendar day at the site, and a verify
\* request for an existing entry is answered with the 400 of an expired queue
\* number exactly when the entry's date is not the calendar day at the site.
C17_SiteLocalDay ==
  [][\A p \in Clients :
       /\ (pc[p] = "idle" /\ pc'[p] = "deviceCheck") =>
            local'[p].today = siteDate(clock)
       /\ \A body \in VerifyBodies(1..idSeq) : \A r \in Referred(body) :
            VerifyReceive(p, body) =>
              (/\ Answered(p)
               /\ Expired(sent'.body)) <=> (r.date # siteDate(clock))]_vars

----------------------------------------------------------------------------
(* Properties of the geofence check *)

\* The raw distance of a call of the gate, in metres.
RawDistance == Abs(gate.userLat - LGA_LATITUDE)

\* The accuracy the request reported, when it reported a number.
ReportedAccuracy == gate.gps_accuracy.v

Floor0(x) == IF x > 0 THEN x ELSE 0

Capped(a) == IF a < 0 THEN 0 ELSE IF a > 150 THEN 150 ELSE a

\* C18: for every raw distance d, reported accuracy a and radius r the gate
\* admits exactly when max(0, d - min(max(a, 0), 150)) <= r; with r = 500 and
\* d = 520 it admits at a = 30 (effective distance 490) and denies at a = 0
\* (effective distance 520).
C18_GateFormula ==
  (gate.called /\ gate.gps_accuracy.t = "number") =>
    LET d == RawDistance
        a == ReportedAccuracy
        r == gate.radius_meters
        check == gate.geofenceCheck
    IN  /\ check.isWithin <=> (Floor0(d - Capped(a)) <= r)
        /\ check.effectiveDistance = Floor0(d - Capped(a))
        /\ (r = 500 /\ d = 520 /\ a = 30) =>
             (check.isWithin /\ check.effectiveDistance = 490)
        /\ (r = 500 /\ d = 520 /\ a = 0) =>
             (~check.isWithin /\ check.effectiveDistance = 520)

\* The gate has admitted a position 520 m from the centre of a 500 m LGA that
\* came with an accuracy of 30 m.
C18_Witness ==
  /\ gate.called
  /\ gate.gps_accuracy = Num(30)
  /\ RawDistance = 520
  /\ gate.radius_meters = 500
  /\ gate.geofenceCheck.isWithin
  /\ gate.geofenceCheck.effectiveDistance = 490

\* C19: no reported accuracy lets a position pass whose raw distance exceeds
\* the radius by more than 150 m, and an accuracy above 150 m gives the verdict
\* and the effective distance that an accuracy of 150 m gives.
C19_AccuracyCapped ==
  gate.called =>
    LET check == gate.geofenceCheck IN
    /\ RawDistance > gate.radius_meters + 150 => ~check.isWithin
    /\ (gate.gps_accuracy.t = "number" /\ ReportedAccuracy >= 150) =>
         /\ check.isWithin <=> (Floor0(RawDistance - 150) <= gate.radius_meters)
         /\ check.effectiveDistance = Floor0(RawDistance - 150)

\* The gate has denied a position 700 m from the centre of a 500 m LGA that
\* came with an accuracy of 1000 m, at an effective distance of 550 m.
C19_Witness ==
  /\ gate.called
  /\ gate.gps_accuracy = Num(1000)
  /\ RawDistance = 700
  /\ gate.radius_meters = 500
  /\ ~gate.geofenceCheck.isWithin
  /\ gate.geofenceCheck.effectiveDistance = 550

----------------------------------------------------------------------------
(* Properties of DEV_MODE *)

\* The request claims a position that is a pair of numbers within range.
ClaimsValidPosition(body) ==
  /\ body.latitude.t = "number"
  /\ body.longitude.t = "number"
  /\ Abs(body.latitude.v) <= LAT_RANGE
  /\ Abs(body.longitude.v) <= LON_RANGE

\* With DEV_MODE on, a request is never denied for its position, it goes on
\* to the lookups with the position stored(body), and that is the position of
\* the entry its COMMIT creates.
DevModePosition(stored(_)) ==
  isDevMode =>
    \A p \in Clients :
      /\ \A body \in DevBodies :
           Receive(p, body) =>
             /\ DenialKind(sent'.body) \notin {"InvalidLocation", "OutsideGeofence"}
             /\ (~FailsFormat(body) /\ ~FailsDevice(body)) =>
                  /\ pc'[p] = "deviceCheck"
                  /\ <<local'[p].userLat, local'[p].userLon>> = stored(body)
      /\ (pc[p] = "commit" /\ Answered(p)) =>
           \A r \in queue_entries' \ queue_entries :
             /\ r.latitude = local[p].userLat
             /\ r.longitude = local[p].userLon

SiteCentre(body) == <<lgas[1].latitude, lgas[1].longitude>>

ClaimedOrSiteCentre(body) ==
  IF ClaimsValidPosition(body)
  THEN <<body.latitude.v, body.longitude.v>>
  ELSE SiteCentre(body)

\* C20, as claimed: with DEV_MODE on every allocation skips the validation of
\* the position and the geofence, and the new entry stores the centre of the
\* LGA whatever position the request claimed.
C20_DevModeStoresCentre == [][DevModePosition(SiteCentre)]_vars

\* C20, amended: with DEV_MODE on every allocation skips the validation of the
\* position and the geofence; the new entry stores the claimed position when
\* that is a valid one (however far from the LGA) and the centre of the LGA
\* when the claimed position is invalid or absent.
C20_DevModeStoresClaimedOrCentre == [][DevModePosition(ClaimedOrSiteCentre)]_vars

\* With DEV_MODE on the table holds an entry 5 km from the centre and an entry
\* at the centre.
C20_Witness ==
  /\ isDevMode
  /\ \E r \in queue_entries : r.latitude = LGA_LATITUDE + 5000
  /\ \E r \in queue_entries : r.latitude = LGA_LATITUDE

----------------------------------------------------------------------------
(* Frame of the requests *)

IsStatsResponse(r) == "total_queued" \in DOMAIN r
IsGenerateResponse(r) == "attempted" \in DOMAIN r

\* Every committed entry is still in the table, the same in every column but
\* status.
C21_EntriesKept ==
  \A r \in queue_entries :
    \E n \in queue_entries' : n = [r EXCEPT !.status = n.status]

\* A step that answers a stats request, denies a generate request or returns
\* the existing entry to one leaves the table as it is.
C21_ReadersChangeNothing ==
  (sent'.to \in Clients /\
     \/ IsStatsResponse(sent'.body)
     \/ IsGenerateResponse(sent'.body) /\ sent'.body.status # 201) =>
    queue_entries' = queue_entries

\* C21: over generate, verify and stats requests no committed entry is removed
\* and no column of one but status changes; stats requests, denied generate
\* requests and generate requests that return the existing entry change no
\* entry.
C21_Frame == [][C21_EntriesKept /\ C21_ReadersChangeNothing]_vars

\* A stats request was answered over a table that holds a USED entry and an
\* entry of another day.
C21_Witness ==
  /\ IsStatsResponse(sent.body)
  /\ \E r \in queue_entries : \E n \in queue_entries :
       r.status = "USED" /\ n.date # r.date

----------------------------------------------------------------------------
(* Day scoping *)

C22_TodayOnly ==
  \A p \in Clients :
    /\ ( /\ Leaves(p, "deviceCheck")
         /\ \A r \in Today(p) : r.device_fingerprint # deviceFingerprint(p) ) =>
         pc'[p] = "stateCodeCheck"
    /\ ( /\ Leaves(p, "stateCodeCheck")
         /\ \A r \in Today(p) : r.state_code # local[p].normalizedStateCode ) =>
         pc'[p] = "nextNumber"
    /\ (Leaves(p, "nextNumber") /\ Today(p) = {}) =>
         local'[p].nextQueueNumber = 1
    /\ (pc[p] = "insertEntry" /\ pc'[p] = "catch") =>
         \E r \in Today(p) :
           \/ r.state_code = local[p].normalizedStateCode
           \/ r.queue_number = local[p].nextQueueNumber
    /\ \A r \in queue_entries' \ queue_entries :
         EntriesOf(r.date) = {} => r.queue_number = 1

\* C22: entries of earlier days do not affect an allocation: a request whose
\* device and state code hold no entry of its own day passes both lookups
\* whatever they hold on earlier days, its INSERT conflicts only with entries
\* of its own day, and the first entry committed for a day has queue number 1.
C22_EarlierDaysIgnored == [][C22_TodayOnly]_vars

\* A device and state code that hold an entry of a day with two entries hold
\* queue number 1 of a later day.
C22_Witness ==
  \E a \in queue_entries : \E b \in queue_entries : \E n \in queue_entries :
    /\ a.date = b.date
    /\ a.queue_number # b.queue_number
    /\ n.date > a.date
    /\ n.state_code = a.state_code
    /\ n.device_fingerprint = a.device_fingerprint
    /\ n.queue_number = 1

----------------------------------------------------------------------------
(* Properties of the fingerprints *)

\* The fields the strict fingerprint lists.
StrictFields(d) ==
  <<d.userAgent, d.platform, d.screenResolution, d.timezone, d.language>>

\* The fields the stable fingerprint lists.
StableFields(d) ==
  <<d.platform, d.screenResolution, d.timezone, d.language,
    d.metadata.colorDepth, d.metadata.hardwareConcurrency,
    d.metadata.deviceMemory, d.metadata.maxTouchPoints, d.metadata.canvas>>

DifferOnlyInUserAgent(a, b) ==
  a.userAgent # b.userAgent /\ [a EXCEPT !.userAgent = b.userAgent] = b

\* C23: two device infos that differ only in userAgent have the same stable
\* fingerprint and different strict fingerprints, and device infos that agree
\* on the fields a fingerprint lists have that fingerprint in common.
C23_StableIgnoresUserAgent ==
  hashed.called =>
    /\ DifferOnlyInUserAgent(hashed.a, hashed.b) =>
         (hashed.stableA = hashed.stableB /\ hashed.strictA # hashed.strictB)
    /\ StrictFields(hashed.a) = StrictFields(hashed.b) =>
         hashed.strictA = hashed.strictB
    /\ StableFields(hashed.a) = StableFields(hashed.b) =>
         hashed.stableA = hashed.stableB

\* Chrome and Firefox of one phone were hashed: one stable fingerprint, two
\* strict ones.
C23_Witness ==
  /\ hashed.called
  /\ hashed.a = ChromeOnA
  /\ hashed.b = FirefoxOnA
  /\ hashed.stableA = hashed.stableB
  /\ hashed.strictA # hashed.strictB

----------------------------------------------------------------------------
(* Properties of the statistics *)

TodaysEntries == {r \in queue_entries : r.date = toISODate(clock)}

\* C24: a stats response reports as total the number of committed entries of
\* today, as active those of them that are ACTIVE and as used those that are
\* USED, so that total = active + used; with no entry of today all are 0.
C24_StatsCounts ==
  [][IsStatsResponse(sent'.body) =>
       LET body == sent'.body IN
       /\ body.total_queued.v = Cardinality(TodaysEntries)
       /\ body.active.v = Cardinality({r \in TodaysEntries : r.status = "ACTIVE"})
       /\ body.used.v = Cardinality({r \in TodaysEntries : r.status = "USED"})
       /\ body.total_queued.v = body.active.v + body.used.v
       /\ TodaysEntries = {} =>
            (body.total_queued.v = 0 /\ body.active.v = 0 /\ body.used.v = 0)]_vars

\* A stats response reported a used entry of today while the table holds an
\* entry of another day.
C24_Witness ==
  /\ IsStatsResponse(sent.body)
  /\ sent.body.used.v >= 1
  /\ \E r \in queue_entries : r.date # sent.body.date

----------------------------------------------------------------------------
(* Properties of the rate limiter *)

\* C25: within one window at most 5 generate requests of one client address
\* are handed to the handler; every further one is answered by the limiter.
C25_FivePerAddress ==
  \A ip \in ClientIPs : limiter.handled[ip] <= 5

----------------------------------------------------------------------------
(* The outcomes of a verify request *)

NotFound(r) == r.status = 404 /\ r.error = "Invalid reference ID" /\ r.valid = FALSE

\* The view of entry r, as stored after the step, in the response.
ValidView(r) ==
  /\ sent'.body.status = 200
  /\ sent'.body.valid = TRUE
  /\ sent'.body.queue_number = r.queue_number
  /\ sent'.body.state_code = r.state_code
  /\ sent'.body.lga = lgas[1].name
  /\ sent'.body.date = r.date
  /\ \E n \in queue_entries' : n.id = r.id /\ n.status = sent'.body.entry_status

\* C26: a verify request with a reference is answered NotFound, with nothing
\* changed, exactly when no entry has the reference; otherwise with the 400 of
\* an expired queue number exactly when the entry's date is not today;
\* otherwise, at once or after its UPDATE, with a valid view that equals the
\* stored entry, its status the one stored once the request is done.
C26_OutcomeOrder ==
  [][/\ \A p \in Clients : \A body \in VerifyBodies((-1)..(idSeq + 1)) :
          (body.reference_id # 0 /\ pc[p] = "idle" /\ VerifyReceive(p, body)) =>
            IF Referred(body) = {}
            THEN NotFound(sent'.body) /\ queue_entries' = queue_entries
            ELSE \A r \in Referred(body) :
                   IF r.date # toISODate(clock)
                   THEN Expired(sent'.body)
                   ELSE pc'[p] = "verifyUpdate" \/ ValidView(r)
     /\ \A p \in Clients :
          (pc[p] = "verifyCommit" /\ VerifyCommit(p)) =>
            \A r \in queue_entries : r.id = txUpdate[p] => ValidView(r)]_vars

----------------------------------------------------------------------------
(* The spelling of a state code *)

\* The state code a spelling stands for.
ClaimOf(spelling) ==
  IF spelling \in {CODE_1, CODE_1_RAW, CODE_1_LOWER} THEN CODE_1 ELSE CODE_2

\* A request under way and a committed entry of its day.
DeviceOf(p, r) ==
  r.device_fingerprint = deviceFingerprint(p) /\ r.date = local[p].today

C27_StoredNormalised ==
  /\ \A r \in queue_entries :
       /\ r.state_code \in {CODE_1, CODE_2}
       /\ validateStateCode(Str(r.state_code)).valid
       /\ validateStateCode(Str(r.state_code)).normalized = r.state_code
       /\ toUpperCase(trim(r.state_code)) = r.state_code
  /\ \A r1, r2 \in queue_entries :
       (r1.state_code = r2.state_code /\ r1.date = r2.date) => r1 = r2

C27_ComparedNormalised ==
  /\ \A p \in Clients : \A body \in CodeBodies :
       Receive(p, body) =>
         /\ pc'[p] = "deviceCheck"
         /\ local'[p].normalizedStateCode = ClaimOf(body.state_code.v)
  /\ \A p \in Clients :
       ( /\ pc[p] = "deviceCheck"
         /\ \E r \in queue_entries : DeviceOf(p, r)
         /\ DeviceCheck(p) ) =>
         /\ Answered(p)
         /\ \E r \in queue_entries :
              /\ DeviceOf(p, r)
              /\ sent'.body.queue_number = r.queue_number
              /\ IF ClaimOf(local[p].state_code.v) = ClaimOf(r.state_code)
                 THEN sent'.body.status = 200 /\ sent'.body.reference_id = r.id
                 ELSE sent'.body.status = 403
  /\ \A p \in Clients : \A r \in queue_entries :
       ( /\ pc[p] = "stateCodeCheck"
         /\ r.date = local[p].today
         /\ ~DeviceOf(p, r)
         /\ ClaimOf(local[p].state_code.v) = ClaimOf(r.state_code)
         /\ StateCodeCheck(p) ) =>
         /\ Answered(p)
         /\ sent'.body.status = 401

\* C27: every spelling of a state code (letter case, surrounding blanks) is
\* the same state code to the device check (200 with the number of the entry
\* the check found when that entry has the code, 403 when it has another), to
\* the state-code check (401 from another device) and in the stored entry
\* (one entry per code and day, stored normalised), and normalising a stored
\* code gives it back.
C27_SpellingsAreOneClaim ==
  []C27_StoredNormalised /\ [][C27_ComparedNormalised]_vars

\* A request spelling its state code otherwise than the committed entry of its
\* device stores it is at the device check.
C27_Witness ==
  \E p \in Clients : \E r \in queue_entries :
    /\ pc[p] = "deviceCheck"
    /\ DeviceOf(p, r)
    /\ local[p].state_code.v # r.state_code
    /\ ClaimOf(local[p].state_code.v) = r.state_code

----------------------------------------------------------------------------
(* The position the page keeps *)

C28_EnabledHasFix ==
  /\ app.gotFirstFix => app.userLocation # Null /\ ~app.submitDisabled
  /\ ~app.submitDisabled => app.gotFirstFix

C28_Session ==
  /\ app'.userLocation # app.userLocation =>
       \E position \in Positions :
         /\ onPosition(position)
         /\ app'.userLocation = position
         /\ ~app.gotFirstFix \/ position.accuracy < app.userLocation.accuracy
  /\ app.gotFirstFix =>
       /\ app'.gotFirstFix
       /\ app'.userLocation.accuracy <= app.userLocation.accuracy
       /\ ~app'.submitDisabled
  /\ app'.submitDisabled # app.submitDisabled =>
       /\ ~app.gotFirstFix
       /\ app'.gotFirstFix
       /\ ~app'.submitDisabled
       /\ app'.userLocation # Null
  /\ \A code \in ErrorCodes :
       (app.gotFirstFix /\ onError(code)) =>
         /\ app'.userLocation = app.userLocation
         /\ app'.submitDisabled = app.submitDisabled
  /\ (app.gotFirstFix /\ watchTimer) =>
       /\ app'.userLocation = app.userLocation
       /\ app'.submitDisabled = app.submitDisabled

----------------------------------------------------------------------------
(* Concurrent requests of one applicant *)

\* C29: when two requests with the same state code from the same device run
\* concurrently and the day has no entry yet, one entry is created and each
\* of the two is answered with the queue number and the reference of that
\* entry.
C29_SameAnswerToBoth ==
  [][\A p \in Clients :
       (pc[p] \in GenerateStates /\ Answered(p) /\ idSeq' = 1) =>
         \A r \in queue_entries' :
           ( /\ r.state_code = local[p].normalizedStateCode
             /\ r.device_fingerprint = deviceFingerprint(p)
             /\ r.date = local[p].today ) =>
             /\ sent'.body.status \in {200, 201}
             /\ sent'.body.queue_number = r.queue_number
             /\ sent'.body.reference_id = r.id]_vars

----------------------------------------------------------------------------
(* Failures of a generate request *)

C30_Reported ==
  /\ \A p \in Clients :
       (Answered(p) /\ sent'.body.status \notin {200, 201}) =>
         /\ queue_entries' = queue_entries
         /\ txEntry'[p] = NoRow
  /\ \A r \in queue_entries' \ queue_entries :
       /\ sent'.to \in Clients
       /\ pc[sent'.to] = "commit"
       /\ sent'.body.status = 201
       /\ sent'.body.queue_number = r.queue_number
       /\ sent'.body.reference_id = r.id
       /\ queue_entries' \ queue_entries = {r}

----------------------------------------------------------------------------
(* Responses and connections when the store fails *)

\* C31: every request that reaches its handler is eventually answered, and
\* by one response, also when a query fails because the store is unreachable.
C31_AlwaysAnswered ==
  \A p \in Clients :
    (store.req[p].at = "connect") ~>
      (store.req[p].at = "done" /\ store.req[p].answers = 1)

C32_ReleasedOnce ==
  /\ ~store.openTx
  /\ \A p \in Clients :
       LET r == store.req[p] IN
       /\ r.releases <= 1
       /\ r.releases = 1 <=>
            (r.at \in {"done", "dropped", "rejected"} /\ ~(r.thrown /\ r.k = 0))
       /\ r.client # "none" <=> r.at \in {"validate", "query", "rollback", "catch", "finally"}

C32_EndedBeforeRelease ==
  \A p \in Clients :
    finallyRelease(p) =>
      /\ ~store.req[p].tx
      /\ store'.req[p].releases = 1
      /\ store'.req[p].client = "none"

\* C32: a request releases the connection it got from the pool once, on every
\* path, and never while its transaction is open: every path from BEGIN to
\* the release runs COMMIT or ROLLBACK, or lost the connection.
C32_ReleaseAfterEnd == []C32_ReleasedOnce /\ [][C32_EndedBeforeRelease]_vars

\* A request that returned after a lookup inside its transaction has
\* released its connection.
C32_Witness ==
  \E p \in Clients :
    LET r == store.req[p] IN
    /\ r.at = "done"
    /\ r.k \in 2..4
    /\ r.answers = 1
    /\ r.releases = 1
    /\ store.up

----------------------------------------------------------------------------
(* Entries marked USED and later generate requests *)

\* The USED entries of the day of request p.
UsedToday(p) ==
  {r \in queue_entries : r.status = "USED" /\ r.date = local[p].today}

C33_UsedStillHeld ==
  /\ \A p \in Clients :
       ( /\ pc[p] = "deviceCheck"
         /\ \E r \in UsedToday(p) : r.device_fingerprint = deviceFingerprint(p)
         /\ DeviceCheck(p) ) =>
         /\ Answered(p)
         /\ queue_entries' = queue_entries
         /\ \E r \in queue_entries :
              /\ r.device_fingerprint = deviceFingerprint(p)
              /\ r.date = local[p].today
              /\ sent'.body.queue_number = r.queue_number
              /\ IF r.state_code = local[p].normalizedStateCode
                 THEN /\ sent'.body.status = 200
                      /\ sent'.body.reference_id = r.id
                      /\ sent'.body.ticket_status = r.status
                 ELSE sent'.body.status = 403
  /\ \A p \in Clients :
       ( /\ pc[p] = "stateCodeCheck"
         /\ \E r \in UsedToday(p) :
              /\ r.state_code = local[p].normalizedStateCode
              /\ r.device_fingerprint # deviceFingerprint(p)
         /\ StateCodeCheck(p) ) =>
         /\ Answered(p)
         /\ sent'.body.status = 401
         /\ queue_entries' = queue_entries
  /\ \A p \in Clients :
       (pc[p] = "stateCodeCheck" /\ pc'[p] = "nextNumber") =>
         \A r \in UsedToday(p) :
           r.state_code = local[p].normalizedStateCode =>
             r.device_fingerprint = deviceFingerprint(p)
  /\ \A p \in Clients :
       (pc[p] = "deviceCheck" /\ pc'[p] = "stateCodeCheck") =>
         \A r \in UsedToday(p) : r.device_fingerprint # deviceFingerprint(p)

----------------------------------------------------------------------------
(* DEV_MODE and the checks after the geofence *)

\* The committed entries of the device, and those of the state code, of
\* request p on its day.
DeviceRows(p) ==
  {r \in queue_entries :
     r.device_fingerprint = deviceFingerprint(p) /\ r.date = local[p].today}

CodeRows(p) ==
  {r \in queue_entries :
     r.state_code = local[p].normalizedStateCode /\ r.date = local[p].today}

C34_Unique ==
  \A r1, r2 \in queue_entries :
    ( /\ r1.date = r2.date
      /\ r1.state_code = r2.state_code \/ r1.queue_number = r2.queue_number )
    => r1 = r2

C34_SameOutcome ==
  /\ \A p \in Clients : \A body \in BypassBodies :
       (pc[p] = "idle" /\ Receive(p, body)) =>
         /\ ReceiveIn(p, body, TRUE)
         /\ ReceiveIn(p, body, FALSE)
  /\ \A p \in Clients :
       (pc[p] = "deviceCheck" /\ pc'[p] # pc[p]) =>
         IF DeviceRows(p) = {}
         THEN pc'[p] = "stateCodeCheck"
         ELSE /\ Answered(p)
              /\ \E r \in DeviceRows(p) :
                   /\ sent'.body.queue_number = r.queue_number
                   /\ IF r.state_code = local[p].normalizedStateCode
                      THEN sent'.body.status = 200 /\ sent'.body.reference_id = r.id
                      ELSE sent'.body.status = 403
  /\ \A p \in Clients :
       (pc[p] = "stateCodeCheck" /\ pc'[p] # pc[p]) =>
         IF \E r \in CodeRows(p) : r.device_fingerprint # deviceFingerprint(p)
         THEN Answered(p) /\ sent'.body.status = 401
         ELSE pc'[p] = "nextNumber"
  /\ \A p \in Clients :
       (pc[p] = "nextNumber" /\ pc'[p] # pc[p]) =>
         LET n == local'[p].nextQueueNumber
             numbers == {r.queue_number : r \in {e \in queue_entries : e.date = local[p].today}}
         IN  /\ \A m \in numbers : m < n
             /\ n = 1 \/ (n - 1) \in numbers

\* C34: with DEV_MODE set or not, a request from inside the geofence gets the
\* same treatment: the format check and the device-information check answer
\* alike, the device lookup answers 200 or 403 from the entries of the
\* device, the state-code lookup 401 from the entries of the code, the next
\* number is one above the day's highest, and state codes and queue numbers
\* stay unique per day.
C34_BypassChangesOnlyPosition == []C34_Unique /\ [][C34_SameOutcome]_vars

\* With DEV_MODE set, a second state code was refused on a device that holds
\* an entry.
C34_Witness ==
  /\ isDevMode
  /\ sent.to \in Clients
  /\ sent.body.status = 403
  /\ sent.body.error = "One queue per device limit exceeded"
  /\ queue_entries # {}

----------------------------------------------------------------------------
(* Monotonicity of the geofence check *)

\* The verdict of the gate for the position of the call at another accuracy
\* and radius.
VerdictAt(accuracy, radius) ==
  isWithinGeofence(gate.userLat, LGA_LONGITUDE, LGA_LATITUDE, LGA_LONGITUDE,
                   radius, accuracy).isWithin

\* C35: a position the gate admits at accuracy a and radius r it admits at
\* every accuracy a' >= a and every radius r' >= r, and the effective
\* distance lies between 0 and the raw distance.
C35_Monotone ==
  gate.called =>
    LET check == gate.geofenceCheck IN
    /\ check.distance = RawDistance
    /\ check.effectiveDistance >= 0
    /\ check.effectiveDistance <= check.distance
    /\ check.isWithin =>
         \A a \in {x \in GateAccuracies : x.t = "number"} :
           \A r \in GateRadii \cup {gate.radius_meters + 1, 2 * gate.radius_meters} :
             /\ (a.v >= gate.accuracyMeters /\ r >= gate.radius_meters) =>
                  VerdictAt(a.v, r)
             /\ (AccuracyMeters(a) >= gate.accuracyMeters /\ r >= gate.radius_meters) =>
                  VerdictAt(AccuracyMeters(a), r)

\* The gate has admitted a position 640 m from the centre of a 500 m LGA at
\* an accuracy of 150 m; at 30 m it would have denied it.
C35_Witness ==
  /\ gate.called
  /\ gate.gps_accuracy = Num(150)
  /\ RawDistance = 640
  /\ gate.radius_meters = 500
  /\ gate.geofenceCheck.isWithin
  /\ ~VerdictAt(30, 500)
  /\ VerdictAt(1000, 500)

====
